---- MODULE Spec2Model ----
(***************************************************************************)
(* Retro Arcade Adventure.  The main model is the latest version of        *)
(* src/game.js (lines 768-1697): create() builds the state, the engine     *)
(* calls update() once per frame, the start gesture and the loading timers *)
(* drive the intro, the sound timers of AudioSystem call createBeep, the   *)
(* restart gesture reloads the page.  The first copy of the game in        *)
(* src/game.js (lines 1-766) and the legacy version src/unnamed/part_000   *)
(* are modelled on the same variables, with their own handlers and         *)
(* specifications (SpecFirst, SpecLegacy).                                 *)
(*                                                                         *)
(* Coordinates are fixed-point numbers, Scale units per pixel, because the *)
(* chaser and patrol steps (0.3, 0.8 and 0.7 times the enemy speed) are    *)
(* not whole pixels.  The chaser step is truncated to one unit.            *)
(***************************************************************************)
EXTENDS Integers, Sequences, FiniteSets, TLC

VARIABLES player, enemies, collectibles,
          score, health, round, enemySpeed,
          scoreText, healthText, roundText,
          introComplete, gameOver, introElements,
          audioContext, isAudioInitialized, isAudioUnlocked,
          webAudio, playback, unlockPending, soundQueue, beepLog,
          titleVisible, screens, destroyed,
          contextsCreated, resumeCalls, toneProduced, skippedBeeps,
          playbackFailed, stages, escaped,
          gameOverTexts, removedCount, createErrors, logoQueue,
          introMusic, stage, staleSetText,
          reloaded, ticks

vars == <<player, enemies, collectibles, score, health, round, enemySpeed,
          scoreText, healthText, roundText, introComplete, gameOver,
          introElements, audioContext, isAudioInitialized, isAudioUnlocked,
          webAudio, playback, unlockPending, soundQueue, beepLog,
          titleVisible, screens, destroyed,
          contextsCreated, resumeCalls, toneProduced, skippedBeeps,
          playbackFailed, stages, escaped,
          gameOverTexts, removedCount, createErrors, logoQueue,
          introMusic, stage, staleSetText,
          reloaded, ticks>>

----------------------------------------------------------------------------
(* GAME_CONSTANTS *)

WIDTH == 800
HEIGHT == 600
PLAYER_SPEED == 5
ENEMY_SPEED == 4
ENEMY_COUNT == 5
COLLECTIBLE_COUNT == 10
PLAYER_SIZE == 32
ENEMY_SIZE == 48
COLLECTIBLE_SIZE == 32
SCORE_PER_COLLECTIBLE == 10
DAMAGE_PER_ENEMY == 10
MAX_HEALTH == 100
ENEMY_TYPES == <<"random", "chaser", "patrol">>

(* patrol enemies redraw their direction when moveCounter exceeds this *)
PATROL_FRAMES == 60

(* fixed-point units per pixel *)
Scale == 10

Px(n) == n * Scale

----------------------------------------------------------------------------
(* Bounds of the exploration *)

MaxTicks == 4
MaxWalkTicks == 86
MaxLoadTimers == 2
MaxIntroTicks == 4
MaxPlayLoads == 1
MaxFirstTicks == 4
MaxLegacyTicks == 4
MaxMelodies == 1

----------------------------------------------------------------------------
(* Arithmetic helpers *)

Abs(a) == IF a < 0 THEN -a ELSE a

Max(a, b) == IF a > b THEN a ELSE b

(* integer division truncating toward zero *)
Trunc(a, b) == IF a >= 0 THEN a \div b ELSE -((-a) \div b)

RECURSIVE IsqrtIn(_, _, _)
IsqrtIn(n, lo, hi) ==
  IF lo >= hi THEN lo
  ELSE LET mid == (lo + hi + 1) \div 2
       IN IF mid * mid <= n THEN IsqrtIn(n, mid, hi) ELSE IsqrtIn(n, lo, mid - 1)

(* Phaser.Math.Clamp *)
Clamp(v, lo, hi) == IF v < lo THEN lo ELSE IF v > hi THEN hi ELSE v

(* Phaser.Math.Distance.Between(a, b) < size, on squares *)
Within(a, b, size) ==
  LET dx == Abs(a.x - b.x)
      dy == Abs(a.y - b.y)
  IN /\ dx < Px(size)
     /\ dy < Px(size)
     /\ dx * dx + dy * dy < Px(size) * Px(size)

(* template literals `Score: ${score}` etc. *)
ScoreLabel(n) == "Score: " \o ToString(n)
HealthLabel(n) == "Health: " \o ToString(n)
RoundLabel(n) == "Round: " \o ToString(n)

----------------------------------------------------------------------------
(* Entities *)

Pos(px, py) == [x |-> Px(px), y |-> Px(py)]

(* scene.add.sprite(x, y, 'player'): sprites are created visible *)
NewPlayer(q) == [x |-> q.x, y |-> q.y, visible |-> TRUE]

(* GameFactory.createEnemy *)
createEnemy(q, type, dir) ==
  [x |-> q.x, y |-> q.y, type |-> type,
   moveCounter |-> 0, moveDirection |-> dir, visible |-> TRUE]

(* GameFactory.createCollectible *)
createCollectible(q) == [x |-> q.x, y |-> q.y, visible |-> TRUE]

(* sprite.setVisible / group.setVisible (every child of the group) *)
setVisible(e, v) == [e EXCEPT !.visible = v]

GroupSetVisible(g, v) == [i \in 1..Len(g) |-> setVisible(g[i], v)]

(* splice of the group's child array at index k (group.remove) *)
RemoveAt(g, k) == [i \in 1..(Len(g) - 1) |-> IF i < k THEN g[i] ELSE g[i + 1]]

----------------------------------------------------------------------------
(* Values drawn by Phaser.Math.Between / RND.pick, restricted to small sets *)

(* x, y of the five initial enemies: Between(32, 768), Between(32, 568) *)
EnemyLayouts ==
  { << Pos(404, 296), Pos(396, 304), Pos(400, 340), Pos(440, 300), Pos(32, 32) >>,
    << Pos(32, 32), Pos(768, 32), Pos(32, 568), Pos(400, 32), Pos(32, 300) >> }

(* x, y of ten collectibles: Between(32, 768), Between(32, 568) *)
LayoutHeap == [i \in 1..COLLECTIBLE_COUNT |-> Pos(400, 300)]

LayoutSpread ==
  << Pos(400, 300), Pos(420, 300), Pos(432, 300), Pos(400, 331), Pos(405, 305),
     Pos(32, 32), Pos(768, 568), Pos(32, 568), Pos(768, 32), Pos(425, 325) >>

LayoutCorner == [i \in 1..COLLECTIBLE_COUNT |-> Pos(768, 568)]

CollectibleLayouts == { LayoutHeap, LayoutSpread, LayoutCorner }

(* one frame of random numbers: every random enemy draws                   *)
(* Between(-speed, speed) twice, an expiring patrol draws a direction      *)
DrawPatterns ==
  { [ux |-> 1, uy |-> 1, alt |-> FALSE, dir |-> 3],
    [ux |-> -1, uy |-> -1, alt |-> TRUE, dir |-> 0] }

(* the draw of enemy i in pattern d, as a multiple of speed *)
RandomDraw(d, i) ==
  IF d.alt /\ i % 2 = 0 THEN [ux |-> -d.ux, uy |-> -d.uy]
  ELSE [ux |-> d.ux, uy |-> d.uy]

(* cursors.left/right/up/down.isDown *)
KeySets ==
  { {}, {"right"}, {"left", "right", "down"}, {"left", "up"} }

(* the values drawn in a round clearance: the respawn layout, the          *)
(* collectible creations that throw inside scene.add.sprite, the picked    *)
(* enemy type, its x, y (Between(48, 752), Between(48, 552)) and           *)
(* moveDirection, and whether its creation throws                          *)
SpawnOf(lay, fails, etype, epos, edir, efail) ==
  [layout |-> lay, fails |-> fails, etype |-> etype, epos |-> epos,
   edir |-> edir, efail |-> efail]

Spawns ==
  { SpawnOf(LayoutHeap, {}, "random", Pos(410, 310), 0, FALSE),
    SpawnOf(LayoutHeap, {}, "chaser", Pos(410, 310), 1, FALSE),
    SpawnOf(LayoutSpread, {}, "chaser", Pos(48, 48), 2, FALSE),
    SpawnOf(LayoutCorner, {}, "patrol", Pos(752, 552), 3, FALSE),
    SpawnOf(LayoutCorner, {}, "random", Pos(752, 552), 1, FALSE),
    SpawnOf(LayoutSpread, 1..COLLECTIBLE_COUNT, "random", Pos(48, 48), 0, FALSE),
    SpawnOf(LayoutHeap, {2, 3}, "patrol", Pos(410, 310), 0, TRUE) }

----------------------------------------------------------------------------
(* update(): player movement, lines 1512-1534 *)

(* variant: the y clamp of lines 1531-1533 is missing *)
MovePlayer_NoClampY(p, held) ==
  LET x1 == IF "left" \in held THEN p.x - Px(PLAYER_SPEED) ELSE p.x
      x2 == IF "right" \in held THEN x1 + Px(PLAYER_SPEED) ELSE x1
      y1 == IF "up" \in held THEN p.y - Px(PLAYER_SPEED) ELSE p.y
      y2 == IF "down" \in held THEN y1 + Px(PLAYER_SPEED) ELSE y1
  IN [p EXCEPT !.x = Clamp(x2, Px(PLAYER_SIZE), Px(WIDTH - PLAYER_SIZE)),
               !.y = y2]

(* variant: else-if between the two keys of an axis, left and up win *)
MovePlayer_ElseIf(p, held) ==
  LET x2 == IF "left" \in held THEN p.x - Px(PLAYER_SPEED)
            ELSE IF "right" \in held THEN p.x + Px(PLAYER_SPEED) ELSE p.x
      y2 == IF "up" \in held THEN p.y - Px(PLAYER_SPEED)
            ELSE IF "down" \in held THEN p.y + Px(PLAYER_SPEED) ELSE p.y
  IN [p EXCEPT !.x = Clamp(x2, Px(PLAYER_SIZE), Px(WIDTH - PLAYER_SIZE)),
               !.y = Clamp(y2, Px(PLAYER_SIZE), Px(HEIGHT - PLAYER_SIZE))]

(* variant: the player is kept 64 px from the walls *)
MovePlayer_Inset(p, held) ==
  LET x1 == IF "left" \in held THEN p.x - Px(PLAYER_SPEED) ELSE p.x
      x2 == IF "right" \in held THEN x1 + Px(PLAYER_SPEED) ELSE x1
      y1 == IF "up" \in held THEN p.y - Px(PLAYER_SPEED) ELSE p.y
      y2 == IF "down" \in held THEN y1 + Px(PLAYER_SPEED) ELSE y1
  IN [p EXCEPT !.x = Clamp(x2, Px(2 * PLAYER_SIZE), Px(WIDTH - 2 * PLAYER_SIZE)),
               !.y = Clamp(y2, Px(2 * PLAYER_SIZE), Px(HEIGHT - 2 * PLAYER_SIZE))]

MovePlayer(p, held) ==
  LET x1 == IF "left" \in held THEN p.x - Px(PLAYER_SPEED) ELSE p.x
      x2 == IF "right" \in held THEN x1 + Px(PLAYER_SPEED) ELSE x1
      y1 == IF "up" \in held THEN p.y - Px(PLAYER_SPEED) ELSE p.y
      y2 == IF "down" \in held THEN y1 + Px(PLAYER_SPEED) ELSE y1
  IN [p EXCEPT !.x = Clamp(x2, Px(PLAYER_SIZE), Px(WIDTH - PLAYER_SIZE)),
               !.y = Clamp(y2, Px(PLAYER_SIZE), Px(HEIGHT - PLAYER_SIZE))]

(* update(): enemy movement of one enemy, lines 1544-1574 *)

(* Math.cos(angle) * speed * 0.8 with speed = enemySpeed * 0.3, where      *)
(* cos(atan2(dy, dx)) = dx / dist and atan2(0, 0) = 0                      *)
ChaserStep(e, p, spd) ==
  LET dx == p.x - e.x
      dy == p.y - e.y
      dist == IsqrtIn(dx * dx + dy * dy, 0, Px(WIDTH + HEIGHT))
      len == 3 * 8 * spd * Scale
  IN IF dist = 0 THEN [x |-> Trunc(len, 100), y |-> 0]
     ELSE [x |-> Trunc(len * dx, 100 * dist), y |-> Trunc(len * dy, 100 * dist)]

(* speed * 0.7 *)
PatrolStep(spd) == (7 * spd * Scale) \div 10

MoveEnemy(e, i, p, spd, d) ==
  LET moved ==
        IF e.type = "random" THEN
          LET r == RandomDraw(d, i)
          IN [e EXCEPT !.x = @ + Px(r.ux * spd), !.y = @ + Px(r.uy * spd)]
        ELSE IF e.type = "chaser" /\ p.visible THEN
          LET st == ChaserStep(e, p, spd)
          IN [e EXCEPT !.x = @ + st.x, !.y = @ + st.y]
        ELSE IF e.type = "patrol" THEN
          LET c == e.moveCounter + 1
              e1 == IF c > PATROL_FRAMES
                    THEN [e EXCEPT !.moveDirection = d.dir, !.moveCounter = 0]
                    ELSE [e EXCEPT !.moveCounter = c]
          IN CASE e1.moveDirection = 0 -> [e1 EXCEPT !.y = @ - PatrolStep(spd)]
               [] e1.moveDirection = 1 -> [e1 EXCEPT !.y = @ + PatrolStep(spd)]
               [] e1.moveDirection = 2 -> [e1 EXCEPT !.x = @ - PatrolStep(spd)]
               [] e1.moveDirection = 3 -> [e1 EXCEPT !.x = @ + PatrolStep(spd)]
               [] OTHER -> e1
        ELSE e
  IN [moved EXCEPT !.x = Clamp(@, Px(PLAYER_SIZE), Px(WIDTH - PLAYER_SIZE)),
                   !.y = Clamp(@, Px(PLAYER_SIZE), Px(HEIGHT - PLAYER_SIZE))]

MoveEnemies(g, p, spd, d) == [i \in 1..Len(g) |-> MoveEnemy(g[i], i, p, spd, d)]

----------------------------------------------------------------------------
(* AudioSystem, lines 833-1017.  The state threaded through a handler is a *)
(* record s with the fields of gameState.  s.audioContext is "null" or the *)
(* state of the AudioContext; s.webAudio is what the page's AudioContext   *)
(* constructor does (it throws, or returns a context in that state) and    *)
(* s.playback is whether creating and scheduling an oscillator throws.     *)
(* s.thrown names the exception that is propagating out of the handler,    *)
(* "" when there is none: the statements after a throw are not executed.   *)

(* variant: the context is created whether or not one exists *)
init_AlwaysCreate(s) ==
  IF s.webAudio = "throws"
  THEN [s EXCEPT !.isAudioInitialized = FALSE]
  ELSE [s EXCEPT !.audioContext = s.webAudio,
                 !.contextsCreated = @ + 1,
                 !.isAudioInitialized = TRUE,
                 !.resumeCalls = IF s.webAudio = "suspended" THEN @ + 1 ELSE @]

(* lines 834-855: a throw of the constructor is caught *)
init(s) ==
  IF s.audioContext = "null"
  THEN IF s.webAudio = "throws"
       THEN [s EXCEPT !.isAudioInitialized = FALSE]
       ELSE [s EXCEPT !.audioContext = s.webAudio,
                      !.contextsCreated = @ + 1,
                      !.isAudioInitialized = TRUE,
                      !.resumeCalls = IF s.webAudio = "suspended" THEN @ + 1 ELSE @]
  ELSE IF s.audioContext = "suspended"
       THEN [s EXCEPT !.resumeCalls = @ + 1]
       ELSE s

(* variant: the else branch does not read audioContext.state, a missing    *)
(* context counts as unlocked                                              *)
unlock_NullTolerant(s) ==
  IF s.isAudioUnlocked THEN s
  ELSE LET s1 == IF ~s.isAudioInitialized THEN init(s) ELSE s
       IN IF s1.audioContext = "suspended"
          THEN [s1 EXCEPT !.resumeCalls = @ + 1, !.unlockPending = TRUE]
          ELSE [s1 EXCEPT !.isAudioUnlocked = TRUE]

(* lines 857-888: no try/catch; the else branch reads audioContext.state,  *)
(* a TypeError when audioContext is null                                   *)
unlock(s) ==
  IF s.isAudioUnlocked THEN s
  ELSE LET s1 == IF ~s.isAudioInitialized THEN init(s) ELSE s
       IN IF s1.audioContext = "suspended"
          THEN [s1 EXCEPT !.resumeCalls = @ + 1, !.unlockPending = TRUE]
          ELSE IF s1.audioContext = "null"
               THEN [s1 EXCEPT !.thrown = "unlock"]
               ELSE [s1 EXCEPT !.isAudioUnlocked = TRUE]

(* variant: the isAudioUnlocked check of lines 893-896 is missing *)
createBeep_NoUnlockCheck(s) ==
  LET s1 == IF ~s.isAudioInitialized THEN init(s) ELSE s
  IN IF ~s1.isAudioInitialized THEN s1
     ELSE IF s1.playback = "throws"
          THEN [s1 EXCEPT !.playbackFailed = TRUE]
          ELSE [s1 EXCEPT !.toneProduced = TRUE]

(* variant: the try/catch of lines 908-935 is missing *)
createBeep_NoCatch(s) ==
  IF ~s.isAudioUnlocked THEN [s EXCEPT !.skippedBeeps = TRUE]
  ELSE LET s1 == IF ~s.isAudioInitialized THEN init(s) ELSE s
       IN IF ~s1.isAudioInitialized THEN s1
          ELSE IF s1.playback = "throws"
               THEN [s1 EXCEPT !.thrown = "createBeep"]
               ELSE [s1 EXCEPT !.toneProduced = TRUE]

(* lines 890-936 *)
createBeep(s) ==
  IF ~s.isAudioUnlocked THEN [s EXCEPT !.skippedBeeps = TRUE]
  ELSE LET s1 == IF ~s.isAudioInitialized THEN init(s) ELSE s
       IN IF ~s1.isAudioInitialized THEN s1
          ELSE IF s1.playback = "throws"
               THEN [s1 EXCEPT !.playbackFailed = TRUE]
               ELSE [s1 EXCEPT !.toneProduced = TRUE]

(* one createBeep call of a sound function: the index-th note of the      *)
(* sound, its frequency and the delay in ms of the setTimeout that makes   *)
(* the call, 0 for a call made directly                                    *)
Note(sound, index, freq, delay) ==
  [sound |-> sound, index |-> index, freq |-> freq, delay |-> delay]

(* melody.forEach((freq, index) => setTimeout(..., index * step)) *)
MelodyNotes(sound, melody, step) ==
  [i \in 1..Len(melody) |-> Note(sound, i, melody[i], (i - 1) * step)]

(* setTimeout(() => createBeep(...), delay) for each of the notes, in the  *)
(* order of the calls                                                      *)
setTimeouts(s, notes) ==
  IF s.thrown # "" THEN s ELSE [s EXCEPT !.soundQueue = @ \o notes]

(* createBeep called for note n; beepLog lists the notes createBeep was    *)
(* called for since the handler that armed the waiting timers began        *)
beep(s, n) == createBeep([s EXCEPT !.beepLog = Append(@, n)])

(* lines 938-941 *)
playCollectSound(s) ==
  setTimeouts(beep(s, Note("collect", 1, 800, 0)), << Note("collect", 2, 1000, 50) >>)

(* lines 943-946 *)
playDamageSound(s) ==
  setTimeouts(beep(s, Note("damage", 1, 400, 0)), << Note("damage", 2, 200, 100) >>)

StartMelody == MelodyNotes("start", <<523, 659, 784, 1047>>, 150)

(* lines 948-953: four timers, the first with delay 0 *)
playStartSound(s) == setTimeouts(s, StartMelody)

GameOverMelody == MelodyNotes("gameOver", <<523, 440, 349, 294>>, 200)

(* variant: the delays run backwards, (3 - index) * 200 *)
playGameOverSound_Reversed(s) ==
  setTimeouts(s, [i \in 1..4 |-> [GameOverMelody[i] EXCEPT !.delay = (4 - i) * 200]])

(* lines 955-960 *)
playGameOverSound(s) == setTimeouts(s, GameOverMelody)

NewRoundMelody ==
  << Note("newRound", 1, 300, 0), Note("newRound", 2, 400, 150),
     Note("newRound", 3, 500, 300) >>

(* lines 962-966: the first note is played directly *)
playNewRoundSound(s) ==
  setTimeouts(beep(s, NewRoundMelody[1]), SubSeq(NewRoundMelody, 2, 3))

----------------------------------------------------------------------------
(* update(): collectible pass, lines 1578-1632 *)

(* lines 1607-1615: respawn, a failed creation adds nothing *)
RECURSIVE Respawn(_, _, _)
Respawn(g, sp, i) ==
  IF i > COLLECTIBLE_COUNT THEN g
  ELSE IF i \in sp.fails THEN Respawn(g, sp, i + 1)
  ELSE Respawn(Append(g, createCollectible(sp.layout[i])), sp, i + 1)

(* variant: enemies are added from round 3 on *)
AddEnemy_FromRound3(s, sp) ==
  IF s.round >= 3
  THEN IF sp.efail THEN [s EXCEPT !.createErrors = @ + 1]
       ELSE [s EXCEPT !.enemies = Append(@, createEnemy(sp.epos, sp.etype, sp.edir))]
  ELSE s

(* variant: a failed enemy creation is logged and tried again *)
AddEnemy_Retry(s, sp) ==
  IF s.round >= 2
  THEN IF sp.efail
       THEN [s EXCEPT !.createErrors = @ + 1,
                      !.enemies = Append(@, createEnemy(sp.epos, sp.etype, sp.edir))]
       ELSE [s EXCEPT !.enemies = Append(@, createEnemy(sp.epos, sp.etype, sp.edir))]
  ELSE s

(* variant: two enemies are added per round *)
AddEnemy_Two(s, sp) ==
  IF s.round >= 2
  THEN IF sp.efail THEN [s EXCEPT !.createErrors = @ + 1]
       ELSE [s EXCEPT !.enemies = Append(Append(@, createEnemy(sp.epos, sp.etype, sp.edir)),
                                         createEnemy(sp.epos, sp.etype, sp.edir))]
  ELSE s

(* lines 1617-1627: one enemy of a picked type *)
AddEnemy(s, sp) ==
  IF s.round >= 2
  THEN IF sp.efail THEN [s EXCEPT !.createErrors = @ + 1]
       ELSE [s EXCEPT !.enemies = Append(@, createEnemy(sp.epos, sp.etype, sp.edir))]
  ELSE s

(* variant: round is incremented twice *)
NewRound_TwoRounds(s, sp) ==
  LET s1 == playNewRoundSound([s EXCEPT !.round = @ + 2,
                                        !.roundText = RoundLabel(s.round + 2),
                                        !.enemySpeed = @ + 1])
      s2 == [s1 EXCEPT !.collectibles = Respawn(@, sp, 1),
                       !.createErrors = @ + Cardinality(sp.fails)]
  IN IF s1.thrown # "" THEN s1 ELSE AddEnemy(s2, sp)

(* variant: the enemy speed is not raised *)
NewRound_NoSpeed(s, sp) ==
  LET s1 == playNewRoundSound([s EXCEPT !.round = @ + 1,
                                        !.roundText = RoundLabel(s.round + 1)])
      s2 == [s1 EXCEPT !.collectibles = Respawn(@, sp, 1),
                       !.createErrors = @ + Cardinality(sp.fails)]
  IN IF s1.thrown # "" THEN s1 ELSE AddEnemy(s2, sp)

(* variant: a clearance is rewarded with 50 points *)
NewRound_Bonus(s, sp) ==
  LET s1 == playNewRoundSound([s EXCEPT !.round = @ + 1,
                                        !.roundText = RoundLabel(s.round + 1),
                                        !.enemySpeed = @ + 1,
                                        !.score = @ + 50,
                                        !.scoreText = ScoreLabel(s.score + 50)])
      s2 == [s1 EXCEPT !.collectibles = Respawn(@, sp, 1),
                       !.createErrors = @ + Cardinality(sp.fails)]
  IN IF s1.thrown # "" THEN s1 ELSE AddEnemy(s2, sp)

(* lines 1596-1628: start of a new round *)
NewRound(s, sp) ==
  LET s1 == playNewRoundSound([s EXCEPT !.round = @ + 1,
                                        !.roundText = RoundLabel(s.round + 1),
                                        !.enemySpeed = @ + 1])
      s2 == [s1 EXCEPT !.collectibles = Respawn(@, sp, 1),
                       !.createErrors = @ + Cardinality(sp.fails)]
  IN IF s1.thrown # "" THEN s1 ELSE AddEnemy(s2, sp)

(* variant: the collectible is hidden and scored but stays in the group *)
Collect_NoRemove(s, k) ==
  playCollectSound(
    [s EXCEPT !.collectibles[k] = setVisible(@, FALSE),
              !.removedCount = @ + 1,
              !.score = @ + SCORE_PER_COLLECTIBLE,
              !.scoreText = ScoreLabel(s.score + SCORE_PER_COLLECTIBLE)])

(* lines 1585-1593: one collectible collected *)
Collect(s, k) ==
  playCollectSound(
    [s EXCEPT !.collectibles = RemoveAt(@, k),
              !.removedCount = @ + 1,
              !.score = @ + SCORE_PER_COLLECTIBLE,
              !.scoreText = ScoreLabel(s.score + SCORE_PER_COLLECTIBLE)])

(* getChildren().forEach over the group's own child array: index k runs to *)
(* the length the array had when the pass began, an index past the current *)
(* end is skipped                                                          *)
RECURSIVE CollectPass(_, _, _, _)
CollectPass(s, sp, k, len) ==
  IF k > len THEN s
  ELSE IF k > Len(s.collectibles) THEN CollectPass(s, sp, k + 1, len)
  ELSE LET c == s.collectibles[k]
       IN IF c.visible /\ s.player.visible /\ Within(s.player, c, COLLECTIBLE_SIZE)
          THEN LET s1 == Collect(s, k)
                   s2 == IF s1.thrown = "" /\ Len(s1.collectibles) = 0
                         THEN NewRound(s1, sp) ELSE s1
               IN IF s2.thrown # "" THEN s2 ELSE CollectPass(s2, sp, k + 1, len)
          ELSE CollectPass(s, sp, k + 1, len)

----------------------------------------------------------------------------
(* update(): enemy collision pass, lines 1634-1695 *)

(* variant: the player and the enemies are not hidden when the game ends *)
EndGame_PlayerShown(s) ==
  playGameOverSound(
    [s EXCEPT !.gameOver = TRUE,
              !.collectibles = GroupSetVisible(@, FALSE),
              !.gameOverTexts = @ + 1])

(* lines 1649-1691 *)
EndGame(s) ==
  playGameOverSound(
    [s EXCEPT !.gameOver = TRUE,
              !.player = setVisible(@, FALSE),
              !.enemies = GroupSetVisible(@, FALSE),
              !.collectibles = GroupSetVisible(@, FALSE),
              !.gameOverTexts = @ + 1])

(* variant: a contact costs twice DAMAGE_PER_ENEMY *)
Damage_Double(s) ==
  playDamageSound(
    [s EXCEPT !.health = @ - 2 * DAMAGE_PER_ENEMY,
              !.healthText = HealthLabel(s.health - 2 * DAMAGE_PER_ENEMY)])

(* variant: the health text is not refreshed *)
Damage_StaleText(s) ==
  playDamageSound([s EXCEPT !.health = @ - DAMAGE_PER_ENEMY])

(* variant: a contact costs 30 *)
Damage_Thirty(s) ==
  playDamageSound(
    [s EXCEPT !.health = @ - 30, !.healthText = HealthLabel(s.health - 30)])

(* lines 1641-1648 *)
Damage(s) ==
  playDamageSound(
    [s EXCEPT !.health = @ - DAMAGE_PER_ENEMY,
              !.healthText = HealthLabel(s.health - DAMAGE_PER_ENEMY)])

(* variant: the visibility checks of line 1638 are missing *)
Touches_IgnoreVisible(s, k) ==
  Within(s.player, s.enemies[k], ENEMY_SIZE)

(* lines 1638-1640 *)
Touches(s, k) ==
  /\ s.enemies[k].visible
  /\ s.player.visible
  /\ Within(s.player, s.enemies[k], ENEMY_SIZE)

RECURSIVE EnemyPass(_, _)
EnemyPass(s, k) ==
  IF k > Len(s.enemies) THEN s
  ELSE IF Touches(s, k)
       THEN LET s1 == Damage(s)
                s2 == IF s1.thrown = "" /\ s1.health <= 0 THEN EndGame(s1) ELSE s1
            IN IF s2.thrown # "" THEN s2 ELSE EnemyPass(s2, k + 1)
       ELSE EnemyPass(s, k + 1)

----------------------------------------------------------------------------
(* First copy of the game, src/game.js lines 1-766: AudioSystem and the    *)
(* collision passes of update().  gameState has no isAudioUnlocked, init   *)
(* (lines 65-78) has the statements of the latest init, and every sound    *)
(* function arms the timers of its latest namesake.                        *)

(* lines 80-108: no unlock test *)
createBeepFirst(s) ==
  LET s1 == IF ~s.isAudioInitialized THEN init(s) ELSE s
  IN IF ~s1.isAudioInitialized THEN s1
     ELSE IF s1.playback = "throws"
          THEN [s1 EXCEPT !.playbackFailed = TRUE]
          ELSE [s1 EXCEPT !.toneProduced = TRUE]

beepFirst(s, n) == createBeepFirst([s EXCEPT !.beepLog = Append(@, n)])

(* lines 671-721: the distance is the only test; the respawn and the added *)
(* enemy are those of the latest version                                   *)
RECURSIVE CollectPassFirst(_, _, _, _)
CollectPassFirst(s, sp, k, len) ==
  LET (* playCollectSound, lines 110-113 *)
      playCollectSoundFirst(t) ==
        setTimeouts(beepFirst(t, Note("collect", 1, 800, 0)),
                    << Note("collect", 2, 1000, 50) >>)
      (* playNewRoundSound, lines 134-138 *)
      playNewRoundSoundFirst(t) ==
        setTimeouts(beepFirst(t, NewRoundMelody[1]), SubSeq(NewRoundMelody, 2, 3))
      (* lines 675-683 *)
      CollectFirst(t) ==
        playCollectSoundFirst(
          [t EXCEPT !.collectibles = RemoveAt(@, k),
                    !.removedCount = @ + 1,
                    !.score = @ + SCORE_PER_COLLECTIBLE,
                    !.scoreText = ScoreLabel(t.score + SCORE_PER_COLLECTIBLE)])
      (* lines 686-718 *)
      NewRoundFirst(t) ==
        LET t1 == playNewRoundSoundFirst([t EXCEPT !.round = @ + 1,
                                                   !.roundText = RoundLabel(t.round + 1),
                                                   !.enemySpeed = @ + 1])
        IN AddEnemy([t1 EXCEPT !.collectibles = Respawn(@, sp, 1),
                               !.createErrors = @ + Cardinality(sp.fails)], sp)
  IN IF k > len THEN s
     ELSE IF k > Len(s.collectibles) THEN CollectPassFirst(s, sp, k + 1, len)
     ELSE IF Within(s.player, s.collectibles[k], COLLECTIBLE_SIZE)
          THEN LET s1 == CollectFirst(s)
                   s2 == IF Len(s1.collectibles) = 0 THEN NewRoundFirst(s1) ELSE s1
               IN CollectPassFirst(s2, sp, k + 1, len)
          ELSE CollectPassFirst(s, sp, k + 1, len)

(* lines 724-765: the distance is the only test, the game-over block of    *)
(* lines 736-762 (the effects of EndGame) runs for every contact that      *)
(* finds health <= 0                                                       *)
RECURSIVE EnemyPassFirst(_, _)
EnemyPassFirst(s, k) ==
  LET (* playDamageSound, lines 115-118 *)
      playDamageSoundFirst(t) ==
        setTimeouts(beepFirst(t, Note("damage", 1, 400, 0)),
                    << Note("damage", 2, 200, 100) >>)
      (* lines 728-734 *)
      DamageFirst(t) ==
        playDamageSoundFirst(
          [t EXCEPT !.health = @ - DAMAGE_PER_ENEMY,
                    !.healthText = HealthLabel(t.health - DAMAGE_PER_ENEMY)])
  IN IF k > Len(s.enemies) THEN s
     ELSE IF Within(s.player, s.enemies[k], ENEMY_SIZE)
          THEN LET s1 == DamageFirst(s)
                   s2 == IF s1.health <= 0 THEN EndGame(s1) ELSE s1
               IN EnemyPassFirst(s2, k + 1)
          ELSE EnemyPassFirst(s, k + 1)

----------------------------------------------------------------------------
(* update(), whole frame *)

GameRec ==
  [player |-> player, enemies |-> enemies, collectibles |-> collectibles,
   score |-> score, health |-> health, round |-> round,
   enemySpeed |-> enemySpeed, scoreText |-> scoreText,
   healthText |-> healthText, roundText |-> roundText,
   introComplete |-> introComplete, gameOver |-> gameOver,
   introElements |-> introElements, audioContext |-> audioContext,
   isAudioInitialized |-> isAudioInitialized,
   isAudioUnlocked |-> isAudioUnlocked,
   webAudio |-> webAudio, playback |-> playback,
   unlockPending |-> unlockPending, soundQueue |-> soundQueue,
   beepLog |-> beepLog,
   titleVisible |-> titleVisible, screens |-> screens,
   destroyed |-> destroyed, contextsCreated |-> contextsCreated,
   resumeCalls |-> resumeCalls, toneProduced |-> toneProduced,
   skippedBeeps |-> skippedBeeps, playbackFailed |-> playbackFailed,
   stages |-> stages,
   gameOverTexts |-> gameOverTexts, removedCount |-> removedCount,
   createErrors |-> createErrors, logoQueue |-> logoQueue,
   introMusic |-> introMusic, stage |-> stage, thrown |-> ""]

(* lines 1512-1576 *)
MovePass(s, held, d) ==
  LET p == MovePlayer(s.player, held)
  IN [s EXCEPT !.player = p,
               !.enemies = MoveEnemies(@, p, s.enemySpeed, d)]

(* lines 1578-1632 *)
CollectiblesStep(s, sp) ==
  IF s.introComplete /\ ~s.gameOver
  THEN CollectPass(s, sp, 1, Len(s.collectibles))
  ELSE s

(* variant: the enemy pass of the first copy, which tests neither          *)
(* introComplete nor the visibility of the sprites                         *)
EnemiesStep_AsFirstCopy(s) ==
  IF s.thrown = "" THEN EnemyPassFirst(s, 1) ELSE s

(* lines 1634-1695 *)
EnemiesStep(s) ==
  IF s.thrown = "" /\ s.introComplete /\ ~s.gameOver THEN EnemyPass(s, 1) ELSE s

(* variant: the early return of lines 1507-1510 is missing *)
Frame_NoGameOverGuard(s, held, d, sp) ==
  EnemiesStep(CollectiblesStep(MovePass(s, held, d), sp))

Frame(s, held, d, sp) ==
  IF s.gameOver THEN s
  ELSE EnemiesStep(CollectiblesStep(MovePass(s, held, d), sp))

(* the handler named h returns with state s; an exception that is still    *)
(* propagating has escaped it                                              *)
SetGame(s, h) ==
  /\ player' = s.player
  /\ enemies' = s.enemies
  /\ collectibles' = s.collectibles
  /\ score' = s.score
  /\ health' = s.health
  /\ round' = s.round
  /\ enemySpeed' = s.enemySpeed
  /\ scoreText' = s.scoreText
  /\ healthText' = s.healthText
  /\ roundText' = s.roundText
  /\ introComplete' = s.introComplete
  /\ gameOver' = s.gameOver
  /\ introElements' = s.introElements
  /\ audioContext' = s.audioContext
  /\ isAudioInitialized' = s.isAudioInitialized
  /\ isAudioUnlocked' = s.isAudioUnlocked
  /\ webAudio' = s.webAudio
  /\ playback' = s.playback
  /\ unlockPending' = s.unlockPending
  /\ soundQueue' = s.soundQueue
  /\ beepLog' = s.beepLog
  /\ titleVisible' = s.titleVisible
  /\ screens' = s.screens
  /\ destroyed' = s.destroyed
  /\ contextsCreated' = s.contextsCreated
  /\ resumeCalls' = s.resumeCalls
  /\ toneProduced' = s.toneProduced
  /\ skippedBeeps' = s.skippedBeeps
  /\ playbackFailed' = s.playbackFailed
  /\ stages' = s.stages
  /\ gameOverTexts' = s.gameOverTexts
  /\ removedCount' = s.removedCount
  /\ createErrors' = s.createErrors
  /\ logoQueue' = s.logoQueue
  /\ introMusic' = s.introMusic
  /\ stage' = s.stage
  /\ staleSetText' = staleSetText
  /\ escaped' = IF s.thrown = "" THEN escaped ELSE escaped \cup {<<h, s.thrown>>}

AnySpawn == CHOOSE sp \in Spawns : TRUE

(* addEvent({ delay: 500, repeat: 5 }), line 1300: the event is scheduled  *)
(* to fire LOADING_REPEAT + 1 times                                        *)
LOADING_REPEAT == 5

(* callbacks of the loading-dots timer that run before the 2500 ms timers: *)
(* delay 500, so at 500, 1000, 1500 and 2000 ms                            *)
DOTS_BEFORE_END == 4

(* the setTimeout timers of AudioSystem that have not fired *)
soundTimers == Len(soundQueue)

(* the state a frame, gesture or loading handler starts from: beepLog is   *)
(* the record of the beeps since no sound timer was waiting                *)
Handler == IF soundQueue = <<>> THEN [GameRec EXCEPT !.beepLog = <<>>] ELSE GameRec

(* the 2500 ms timers of runLoadingScreen that have not fired *)
loadTimers == Cardinality({ k \in DOMAIN screens : screens[k].pending })

(* no sound timer is waiting and every loading screen on display has shown *)
(* its dots.  Timers that are armed together are explored as one burst:    *)
(* the frames and gestures explored are those between two bursts           *)
TimersQuiet ==
  /\ soundTimers = 0
  /\ \A k \in DOMAIN screens :
       screens[k].pending => screens[k].fired = DOTS_BEFORE_END

(* one call of update() with the keys in keySets held and the frame's      *)
(* random numbers in draws; the respawn values are drawn only in a frame   *)
(* that clears the round                                                   *)
update(keySets, draws, cap) ==
  /\ ~reloaded
  /\ ticks < cap
  /\ TimersQuiet
  /\ ticks' = ticks + 1
  /\ \E held \in keySets, d \in draws :
       LET s0 == Handler
           probe == Frame(s0, held, d, AnySpawn)
       IN IF probe.round = s0.round
          THEN SetGame(probe, "update")
          ELSE \E sp \in Spawns : SetGame(Frame(s0, held, d, sp), "update")
  /\ UNCHANGED reloaded

----------------------------------------------------------------------------
(* create(), lines 1459-1504, and the initial gameState, lines 807-827 *)

(* moveDirection drawn for the initial enemies *)
InitialDirections == {2}

(* the timers of the intro music: stored is the id in                      *)
(* gameState.introMusicInterval (0 for null, line 822), alive the ids of   *)
(* the setInterval timers that were not cleared, retries the 100 ms timers *)
(* of startIntroMusic that are armed, notes the note timers of the melody  *)
(* that have not fired, made the setInterval calls so far and melodies the *)
(* melodies the interval has started                                       *)
NoMusic ==
  [stored |-> 0, alive |-> {}, retries |-> 0, notes |-> 0, made |-> 0, melodies |-> 0]

(* create() ends with showTitleScreen, line 1498: the title screen is the  *)
(* first stage on display; kinds and plays are the pages considered        *)
create(kinds, plays, texts) ==
  /\ player = setVisible(NewPlayer(Pos(WIDTH \div 2, HEIGHT \div 2)), FALSE)
  /\ \E lay \in EnemyLayouts, dir \in InitialDirections :
       enemies = [i \in 1..ENEMY_COUNT |->
                    setVisible(createEnemy(lay[i], "random", dir), FALSE)]
  /\ \E lay \in CollectibleLayouts :
       collectibles = [i \in 1..COLLECTIBLE_COUNT |->
                         setVisible(createCollectible(lay[i]), FALSE)]
  /\ score = 0
  /\ health = MAX_HEALTH
  /\ round = 1
  /\ enemySpeed = ENEMY_SPEED
  /\ scoreText = ScoreLabel(0)
  /\ healthText = HealthLabel(MAX_HEALTH)
  /\ roundText = RoundLabel(1)
  /\ introComplete = FALSE
  /\ gameOver = FALSE
  /\ introElements = <<>>
  /\ audioContext = "null"
  /\ isAudioInitialized = FALSE
  /\ isAudioUnlocked = FALSE
  /\ webAudio \in kinds
  /\ playback \in plays
  /\ unlockPending = FALSE
  /\ soundQueue = <<>>
  /\ beepLog = <<>>
  /\ titleVisible = TRUE
  /\ screens = <<>>
  /\ destroyed = {}
  /\ contextsCreated = 0
  /\ resumeCalls = 0
  /\ toneProduced = FALSE
  /\ skippedBeeps = FALSE
  /\ playbackFailed = FALSE
  /\ stages = <<"title">>
  /\ escaped = {}
  /\ gameOverTexts = 0
  /\ removedCount = 0
  /\ createErrors = 0
  /\ logoQueue = <<>>
  /\ introMusic = NoMusic
  /\ stage = 0
  /\ staleSetText \in texts
  /\ reloaded = FALSE
  /\ ticks = 0

(* a page whose AudioContext starts running and plays every tone, on a     *)
(* build whose setText returns on a destroyed text                         *)
Init == create({"running"}, {"ok"}, {"returns"})

----------------------------------------------------------------------------
(* Intro stages, lines 1252-1401 *)

Range(q) == { q[i] : i \in DOMAIN q }

(* the display objects createLoadingScreen adds for the k-th loading screen *)
LoadingElements(k) ==
  << <<k, "loadingText">>, <<k, "progressBg">>, <<k, "progressBar">> >>

(* lines 1275-1315: the three elements are pushed to introElements, the    *)
(* dots timer and the 2500 ms timer are armed                              *)
createLoadingScreen(s) ==
  LET k == Len(s.screens) + 1
  IN [s EXCEPT !.introElements = @ \o LoadingElements(k),
               !.screens = Append(@, [fired |-> 0, dots |-> 0, pending |-> TRUE])]

(* variant: the loading screen is skipped, the game starts at once *)
runLoadingScreen_Skip(s) ==
  playStartSound(
    [s EXCEPT !.introElements = <<>>,
              !.player = setVisible(@, TRUE),
              !.enemies = GroupSetVisible(@, TRUE),
              !.collectibles = GroupSetVisible(@, TRUE),
              !.stages = Append(@, "game"),
              !.introComplete = TRUE])

(* lines 1252-1273: introElements is reset without destroying what it held *)
runLoadingScreen(s) ==
  createLoadingScreen([s EXCEPT !.introElements = <<>>,
                                !.stages = Append(@, "loading")])

(* variant: the gesture restarts the intro, introComplete is cleared *)
startGame_IntroAgain(s) ==
  LET s1 == unlock(s)
  IN IF s1.thrown # "" THEN s1
     ELSE runLoadingScreen([s1 EXCEPT !.titleVisible = FALSE,
                                      !.introComplete = FALSE])

(* variant: the loading screen is started only once the audio is unlocked *)
startGame_WaitForUnlock(s) ==
  LET s1 == unlock(s)
  IN IF s1.thrown # "" \/ ~s1.isAudioUnlocked THEN s1
     ELSE runLoadingScreen([s1 EXCEPT !.titleVisible = FALSE])

(* startGame, lines 1352-1373 (start button or spacebar): the children it  *)
(* hides are neither the player, an enemy, a collectible nor a HUD text    *)
startGame(s) ==
  LET s1 == unlock(s)
  IN IF s1.thrown # "" THEN s1
     ELSE runLoadingScreen([s1 EXCEPT !.titleVisible = FALSE])

(* lines 1009-1016: clearInterval on the stored id; a retry timer of       *)
(* startIntroMusic and the note timers of a melody are not cleared         *)
stopIntroMusic(s) ==
  IF s.introMusic.stored # 0
  THEN [s EXCEPT !.introMusic.alive = @ \ {s.introMusic.stored},
                 !.introMusic.stored = 0]
  ELSE s

(* lines 1382-1401 *)
startActualGame(s) ==
  LET s1 == playStartSound(
              [stopIntroMusic(s)
                 EXCEPT !.player = setVisible(@, TRUE),
                        !.enemies = GroupSetVisible(@, TRUE),
                        !.collectibles = GroupSetVisible(@, TRUE),
                        !.stages = Append(@, "game")])
  IN IF s1.thrown # "" THEN s1 ELSE [s1 EXCEPT !.introComplete = TRUE]

(* nextStage of runLoadingScreen, lines 1256-1264 *)
nextStage(s) ==
  startActualGame([s EXCEPT !.destroyed = @ \cup Range(s.introElements),
                            !.introElements = <<>>])

(* loadingText.setText of line 1304 on the text of screen k.  On a text    *)
(* that was destroyed the outcome depends on the Phaser build and its      *)
(* renderer, which are those of the page (staleSetText): the call returns, *)
(* or it throws a TypeError                                                *)
setTextThrows(k) ==
  IF <<k, "loadingText">> \in destroyed THEN {staleSetText = "throws"} ELSE {FALSE}

(* callback of the loading-dots timer of screen k, lines 1302-1306; fails  *)
(* is whether setText throws, the beep of line 1305 is then not reached    *)
loadingDots(s, k, fails) ==
  LET s1 == [s EXCEPT !.screens[k].fired = @ + 1,
                      !.screens[k].dots = (@ + 1) % 4]
  IN IF fails THEN [s1 EXCEPT !.thrown = "setText"] ELSE createBeep(s1)

(* the timers of screen k that are due at 2500 ms, in the order they were  *)
(* armed: the dots timer, the delayed call of createLoadingScreen (lines   *)
(* 1309-1314, this.nextStage is undefined on the scene) and the delayed    *)
(* call of runLoadingScreen (lines 1269-1272).  A throw of the dots        *)
(* callback ends the clock update; the two delayed calls, still due, run   *)
(* in a later update, in which the dots event does not call back again     *)
(* variant: the delayed call of createLoadingScreen destroys the dots      *)
(* timer before its 2500 ms firing                                         *)
loadingEnd_DestroyFirst(s, k, fails) ==
  LET s2 == createBeep([s EXCEPT !.screens[k].pending = FALSE])
      s3 == IF s2.thrown # "" THEN s2 ELSE createBeep(s2)
  IN IF s3.thrown # "" THEN s3 ELSE nextStage(s3)

loadingEnd(s, k, fails) ==
  LET s1 == IF s.screens[k].fired = DOTS_BEFORE_END THEN loadingDots(s, k, fails) ELSE s
      s2 == IF s1.thrown # "" THEN s1
            ELSE createBeep([s1 EXCEPT !.screens[k].pending = FALSE])
      s3 == IF s2.thrown # "" THEN s2 ELSE createBeep(s2)
  IN IF s3.thrown # "" THEN s3 ELSE nextStage(s3)

----------------------------------------------------------------------------
(* Steps *)

(* the start button is clicked or the spacebar is pressed.  The handler    *)
(* stays on the space key for the whole page load; once the game is over   *)
(* the same key press also runs restartGame, which is the step restartGame *)
startGesture(cap) ==
  /\ ~reloaded
  /\ ~gameOver
  /\ TimersQuiet
  /\ Len(screens) < cap
  /\ SetGame(startGame(Handler), "startGame")
  /\ UNCHANGED <<reloaded, ticks>>

(* any gesture of a page load *)
StartGesture == startGesture(MaxLoadTimers)

(* the gestures of a page load up to the start of play *)
FirstGesture == startGesture(MaxPlayLoads)

(* a 100 ms timer of startIntroMusic (line 974) is armed and the audio is  *)
(* unlocked: the browser runs it before the scene clock, which follows the *)
(* frames, reaches a loading timer of 500 ms or more                       *)
retryDue == introMusic.retries > 0 /\ isAudioUnlocked

(* timers armed at the same delay fire in the order they were armed *)
DotsDue(k) ==
  /\ screens[k].pending
  /\ screens[k].fired < DOTS_BEFORE_END
  /\ \A j \in 1..(k - 1) : screens[j].pending => screens[j].fired > screens[k].fired

EndDue(k) ==
  /\ screens[k].pending
  /\ screens[k].fired >= DOTS_BEFORE_END
  /\ \A j \in 1..(k - 1) : ~screens[j].pending

(* the loading-dots timer of a loading screen fires *)
LoadingTick ==
  /\ ~reloaded
  /\ ~retryDue
  /\ \E k \in DOMAIN screens :
       /\ DotsDue(k)
       /\ \E fails \in setTextThrows(k) :
            SetGame(loadingDots(Handler, k, fails), "loadingDots")
  /\ UNCHANGED <<reloaded, ticks>>

(* the 2500 ms timers of a loading screen fire *)
LoadingDone ==
  /\ ~reloaded
  /\ soundTimers = 0
  /\ ~retryDue
  /\ \E k \in DOMAIN screens :
       /\ EndDue(k)
       /\ \E fails \in setTextThrows(k) :
            SetGame(loadingEnd(Handler, k, fails), "loadingEnd")
  /\ UNCHANGED <<reloaded, ticks>>

(* the timer that fires next: the waiting timers were armed by one        *)
(* handler, the one with the least delay is due first, the one armed first *)
(* among equal delays                                                      *)
NextDue(q) ==
  CHOOSE i \in DOMAIN q :
    \A j \in DOMAIN q :
      q[i].delay < q[j].delay \/ (q[i].delay = q[j].delay /\ i <= j)

(* a setTimeout of AudioSystem fires *)
SoundTimer ==
  /\ ~reloaded
  /\ soundTimers > 0
  /\ LET i == NextDue(soundQueue)
     IN SetGame(beep([GameRec EXCEPT !.soundQueue = RemoveAt(@, i)], soundQueue[i]),
                "soundTimer")
  /\ UNCHANGED <<reloaded, ticks>>

(* the promise of audioContext.resume() in unlock is fulfilled, lines      *)
(* 878-880                                                                 *)
ResumeResolved ==
  /\ ~reloaded
  /\ unlockPending
  /\ SetGame([GameRec EXCEPT !.audioContext = "running",
                             !.isAudioUnlocked = TRUE,
                             !.unlockPending = FALSE], "resume")
  /\ UNCHANGED <<reloaded, ticks>>

(* the promise is rejected, lines 881-883 *)
ResumeRejected ==
  /\ ~reloaded
  /\ unlockPending
  /\ SetGame([GameRec EXCEPT !.unlockPending = FALSE], "resume")
  /\ UNCHANGED <<reloaded, ticks>>

(* restartGame, lines 1678-1687: location.reload() discards the page *)
restartGame ==
  /\ ~reloaded
  /\ gameOver
  /\ reloaded' = TRUE
  /\ SetGame(GameRec, "restartGame")
  /\ UNCHANGED ticks

(* a frame with any combination of cursor keys held *)
Tick == update(KeySets, DrawPatterns, MaxTicks)

Next ==
  Tick \/ FirstGesture \/ LoadingTick \/ LoadingDone \/ SoundTimer \/ restartGame

Spec == Init /\ [][Next]_vars

(* long runs: the keys are held down and right for the whole run, every    *)
(* random enemy draws its largest step                                     *)
WalkTick ==
  update({ {"down", "right"} }, { [ux |-> 1, uy |-> 1, alt |-> FALSE, dir |-> 2] },
         MaxWalkTicks)

NextWalk ==
  WalkTick \/ FirstGesture \/ LoadingTick \/ LoadingDone \/ SoundTimer \/ restartGame

SpecWalk == Init /\ [][NextWalk]_vars

(* every kind of page, short runs with no key held *)
InitIntro ==
  create({"running", "suspended", "throws"}, {"ok", "throws"}, {"returns", "throws"})

IntroDraws == { [ux |-> -1, uy |-> -1, alt |-> TRUE, dir |-> 0] }

IntroTick == update({ {} }, IntroDraws, MaxIntroTicks)

NextIntro ==
  \/ IntroTick \/ StartGesture \/ LoadingTick \/ LoadingDone \/ SoundTimer
  \/ ResumeResolved \/ ResumeRejected \/ restartGame

SpecIntro == InitIntro /\ [][NextIntro]_vars

(* the browser runs a setTimeout callback of AudioSystem that is due: the  *)
(* timer leaves the queue, whatever its callback does                      *)
soundTimerFires ==
  /\ ~reloaded
  /\ soundTimers > 0
  /\ soundQueue' = RemoveAt(soundQueue, NextDue(soundQueue))

(* the scene clock runs the 2500 ms delayed calls of the loading screen    *)
(* that is due: the screen is no longer waiting, whatever the callbacks do *)
loadingTimersFire ==
  /\ ~reloaded
  /\ soundTimers = 0
  /\ \E k \in DOMAIN screens :
       /\ EndDue(k)
       /\ \E fired \in 0..(LOADING_REPEAT + 1), dots \in 0..3 :
            screens' = [screens EXCEPT ![k].pending = FALSE, ![k].fired = fired,
                                       ![k].dots = dots]

(* the gestures, timers and promises of the intro *)
NextStart ==
  \/ StartGesture \/ LoadingTick \/ LoadingDone \/ SoundTimer
  \/ ResumeResolved \/ ResumeRejected

(* the timers that are due do fire: the scene clock runs its events in     *)
(* every frame (the loading-dots event and the 2500 ms delayed calls) and  *)
(* the browser runs the setTimeout callbacks of AudioSystem.  Nothing      *)
(* makes a gesture happen or settles the promise of resume()               *)
SpecIntroFair ==
  /\ InitIntro /\ [][NextStart]_vars
  /\ WF_vars(LoadingTick)
  /\ WF_screens(loadingTimersFire)
  /\ WF_soundQueue(soundTimerFires)

----------------------------------------------------------------------------
(* First copy of the game, src/game.js lines 1-766: frames, intro stages   *)
(* and steps.  create() starts the company logo sequence; the title screen *)
(* follows at 3000 ms, the loading screen after a click on the start       *)
(* button.  Fills, shadows, tweens and the colour cycle of the logo (36    *)
(* firings, the last at 2880 ms) change no state that is modelled.         *)

(* lines 598-766 *)
FrameFirst(s, held, d, sp) ==
  IF s.gameOver THEN s
  ELSE LET s1 == MovePass(s, held, d)
       IN EnemyPassFirst(CollectPassFirst(s1, sp, 1, Len(s1.collectibles)), 1)

(* a delayed call of the scene clock that is waiting: the time in ms, from *)
(* create(), at which it is due, what it runs and the tone it plays        *)
LogoEvent(at, kind, freq) == [at |-> at, kind |-> kind, freq |-> freq]

(* fanfareNotes, lines 184-191 *)
LogoFanfare ==
  << LogoEvent(0, "note", 523), LogoEvent(150, "note", 659),
     LogoEvent(300, "note", 784), LogoEvent(500, "note", 1047),
     LogoEvent(800, "note", 1319), LogoEvent(1200, "note", 1568) >>

LogoElements ==
  << <<0, "companyText">>, <<0, "glowText1">>, <<0, "glowText2">> >>

SubtitleElements == << <<0, "subtitle1">>, <<0, "subtitle2">> >>

(* lines 342-364: createCompanyLogo (lines 146-275: three texts, the       *)
(* fanfare, the subtitle reveal at 2000 ms, the final sounds at 5000 ms),  *)
(* then the title screen after 3000 ms                                     *)
runCompanyLogoSequenceFirst(s) ==
  [s EXCEPT !.introElements = @ \o LogoElements,
            !.logoQueue = @ \o LogoFanfare
                            \o << LogoEvent(2000, "subtitle", 800),
                                  LogoEvent(5000, "final", 800),
                                  LogoEvent(3000, "title", 1200) >>]

(* lines 416-420 *)
loadingDotsFirst(s, k) ==
  createBeepFirst([s EXCEPT !.screens[k].fired = @ + 1,
                            !.screens[k].dots = (@ + 1) % 4])

(* the state after create(), lines 551-596, from the initial gameState,    *)
(* lines 40-58: the logo sequence is running, the entities are hidden      *)
InitFirst ==
  /\ player = setVisible(NewPlayer(Pos(WIDTH \div 2, HEIGHT \div 2)), FALSE)
  /\ \E lay \in EnemyLayouts, dir \in InitialDirections :
       enemies = [i \in 1..ENEMY_COUNT |->
                    setVisible(createEnemy(lay[i], "random", dir), FALSE)]
  /\ \E lay \in CollectibleLayouts :
       collectibles = [i \in 1..COLLECTIBLE_COUNT |->
                         setVisible(createCollectible(lay[i]), FALSE)]
  /\ score = 0
  /\ health = MAX_HEALTH
  /\ round = 1
  /\ enemySpeed = ENEMY_SPEED
  /\ scoreText = ScoreLabel(0)
  /\ healthText = HealthLabel(MAX_HEALTH)
  /\ roundText = RoundLabel(1)
  /\ introComplete = FALSE
  /\ gameOver = FALSE
  /\ introElements = LogoElements
  /\ audioContext = "null"
  /\ isAudioInitialized = FALSE
  /\ isAudioUnlocked = FALSE
  /\ webAudio = "running"
  /\ playback = "ok"
  /\ unlockPending = FALSE
  /\ soundQueue = <<>>
  /\ beepLog = <<>>
  /\ titleVisible = FALSE
  /\ screens = <<>>
  /\ destroyed = {}
  /\ contextsCreated = 0
  /\ resumeCalls = 0
  /\ toneProduced = FALSE
  /\ skippedBeeps = FALSE
  /\ playbackFailed = FALSE
  /\ stages = <<"logo">>
  /\ escaped = {}
  /\ gameOverTexts = 0
  /\ removedCount = 0
  /\ createErrors = 0
  /\ logoQueue = runCompanyLogoSequenceFirst([introElements |-> <<>>,
                                              logoQueue |-> <<>>]).logoQueue
  /\ introMusic = NoMusic
  /\ stage = 0
  /\ staleSetText = "returns"
  /\ reloaded = FALSE
  /\ ticks = 0

(* one call of update() *)
FirstTick ==
  /\ ~reloaded
  /\ ticks < MaxFirstTicks
  /\ TimersQuiet
  /\ ticks' = ticks + 1
  /\ \E held \in { {}, {"right"} }, d \in IntroDraws :
       LET probe == FrameFirst(Handler, held, d, AnySpawn)
       IN IF probe.round = round
          THEN SetGame(probe, "update")
          ELSE \E sp \in Spawns : SetGame(FrameFirst(Handler, held, d, sp), "update")
  /\ UNCHANGED reloaded

(* the delayed call that is due first, the one armed first among equals *)
NextLogo(q) ==
  CHOOSE i \in DOMAIN q :
    \A j \in DOMAIN q : q[i].at < q[j].at \/ (q[i].at = q[j].at /\ i <= j)

(* a delayed call of the logo sequence fires, lines 194-271 and 353-363.   *)
(* The final callback tests this.nextStage on IntroSystem, which has no    *)
(* such property; the title callback is nextStage: it destroys the         *)
(* elements and shows the title screen (lines 431-475)                     *)
LogoTimerFirst ==
  /\ ~reloaded
  /\ logoQueue # <<>>
  /\ soundTimers = 0
  /\ LET i == NextLogo(logoQueue)
         e == logoQueue[i]
         s == [Handler EXCEPT !.logoQueue = RemoveAt(@, i)]
         logoCallbackFirst ==
           CASE e.kind = "note" -> createBeepFirst(s)
             [] e.kind = "subtitle" ->
                  [createBeepFirst([s EXCEPT !.introElements = @ \o SubtitleElements])
                     EXCEPT !.logoQueue = @ \o << LogoEvent(e.at + 200, "note", 1000),
                                                  LogoEvent(e.at + 400, "note", 1200) >>]
             [] e.kind = "title" ->
                  LET s1 == createBeepFirst(s)
                  IN [s1 EXCEPT !.destroyed = @ \cup Range(s1.introElements),
                                !.introElements = <<>>,
                                !.titleVisible = TRUE,
                                !.stages = Append(@, "title")]
             [] e.kind = "final" ->
                  [createBeepFirst(s)
                     EXCEPT !.logoQueue = @ \o << LogoEvent(e.at + 150, "note", 1000),
                                                  LogoEvent(e.at + 300, "note", 1200) >>]
     IN SetGame(logoCallbackFirst, "logo")
  /\ UNCHANGED <<reloaded, ticks>>

(* click on the start button, lines 458-474; the click hides the title *)
StartClickFirst ==
  /\ ~reloaded
  /\ titleVisible
  /\ TimersQuiet
  /\ SetGame(runLoadingScreen([Handler EXCEPT !.titleVisible = FALSE]), "startButton")
  /\ UNCHANGED <<reloaded, ticks>>

LoadingTickFirst ==
  /\ ~reloaded
  /\ \E k \in DOMAIN screens :
       DotsDue(k) /\ SetGame(loadingDotsFirst(Handler, k), "loadingDots")
  /\ UNCHANGED <<reloaded, ticks>>

(* the timers of screen k due at 2500 ms, in the order they were armed:    *)
(* the dots timer, the delayed call of lines 423-428 and the delayed call  *)
(* of lines 383-386, whose nextStage has the statements of nextStage       *)
LoadingDoneFirst ==
  /\ ~reloaded
  /\ soundTimers = 0
  /\ \E k \in DOMAIN screens :
       /\ EndDue(k)
       /\ SetGame(nextStage(createBeepFirst(createBeepFirst(
                    [loadingDotsFirst(Handler, k) EXCEPT !.screens[k].pending = FALSE]))),
                  "loadingEnd")
  /\ UNCHANGED <<reloaded, ticks>>

(* a setTimeout of AudioSystem fires *)
SoundTimerFirst ==
  /\ ~reloaded
  /\ soundTimers > 0
  /\ LET i == NextDue(soundQueue)
     IN SetGame(beepFirst([GameRec EXCEPT !.soundQueue = RemoveAt(@, i)], soundQueue[i]),
                "soundTimer")
  /\ UNCHANGED <<reloaded, ticks>>

(* click on a Restart button, lines 755-758 *)
RestartFirst ==
  /\ ~reloaded
  /\ gameOverTexts > 0
  /\ reloaded' = TRUE
  /\ SetGame(GameRec, "restart")
  /\ UNCHANGED ticks

NextFirst ==
  \/ FirstTick \/ LogoTimerFirst \/ StartClickFirst \/ LoadingTickFirst
  \/ LoadingDoneFirst \/ SoundTimerFirst \/ RestartFirst

SpecFirst == InitFirst /\ [][NextFirst]_vars

----------------------------------------------------------------------------
(* Legacy version, src/unnamed/part_000.  The state is held in globals;    *)
(* there is no gameOver flag and introComplete is never written.  The page *)
(* considered constructs an AudioContext and plays every tone: initAudio   *)
(* (lines 16-24) then has the statements of init, and playStartSound and   *)
(* playGameOverSound (lines 59-73) arm the timers of their latest          *)
(* namesakes.                                                              *)

LEGACY_MARGIN == 16

(* createBeep, lines 27-45, called for note n *)
beepLegacy(s, n) ==
  LET s1 == [s EXCEPT !.beepLog = Append(@, n)]
  IN [(IF ~s1.isAudioInitialized THEN init(s1) ELSE s1) EXCEPT !.toneProduced = TRUE]

(* lines 255-310: else-if between the keys of an axis, clamp to 16..784    *)
(* and 16..584                                                             *)
MovePassLegacy(s, held, d) ==
  LET lo == Px(LEGACY_MARGIN)
      hiX == Px(WIDTH - LEGACY_MARGIN)
      hiY == Px(HEIGHT - LEGACY_MARGIN)
      (* lines 256-270 *)
      MovePlayerLegacy(p) ==
        LET x2 == IF "left" \in held THEN p.x - Px(5)
                  ELSE IF "right" \in held THEN p.x + Px(5) ELSE p.x
            y2 == IF "up" \in held THEN p.y - Px(5)
                  ELSE IF "down" \in held THEN p.y + Px(5) ELSE p.y
        IN [p EXCEPT !.x = Clamp(x2, lo, hiX), !.y = Clamp(y2, lo, hiY)]
      (* lines 279-309 *)
      MoveEnemyLegacy(e, i, p, spd) ==
        LET moved ==
              IF e.type = "random" THEN
                LET r == RandomDraw(d, i)
                IN [e EXCEPT !.x = @ + Px(r.ux * spd), !.y = @ + Px(r.uy * spd)]
              ELSE IF e.type = "chaser" /\ p.visible THEN
                LET st == ChaserStep(e, p, spd)
                IN [e EXCEPT !.x = @ + st.x, !.y = @ + st.y]
              ELSE IF e.type = "patrol" THEN
                LET c == e.moveCounter + 1
                    e1 == IF c > PATROL_FRAMES
                          THEN [e EXCEPT !.moveDirection = d.dir, !.moveCounter = 0]
                          ELSE [e EXCEPT !.moveCounter = c]
                IN CASE e1.moveDirection = 0 -> [e1 EXCEPT !.y = @ - PatrolStep(spd)]
                     [] e1.moveDirection = 1 -> [e1 EXCEPT !.y = @ + PatrolStep(spd)]
                     [] e1.moveDirection = 2 -> [e1 EXCEPT !.x = @ - PatrolStep(spd)]
                     [] e1.moveDirection = 3 -> [e1 EXCEPT !.x = @ + PatrolStep(spd)]
                     [] OTHER -> e1
              ELSE e
        IN [moved EXCEPT !.x = Clamp(@, lo, hiX), !.y = Clamp(@, lo, hiY)]
      pl == MovePlayerLegacy(s.player)
  IN [s EXCEPT !.player = pl,
               !.enemies = [i \in 1..Len(s.enemies) |->
                              MoveEnemyLegacy(s.enemies[i], i, pl, s.enemySpeed)]]

(* lines 313-362 *)
RECURSIVE CollectPassLegacy(_, _, _, _)
CollectPassLegacy(s, sp, k, len) ==
  LET (* playCollectSound, lines 47-51 *)
      playCollectSoundLegacy(t) ==
        setTimeouts(beepLegacy(t, Note("collect", 1, 800, 0)),
                    << Note("collect", 2, 1000, 50) >>)
      (* playNewRoundSound, lines 75-80 *)
      playNewRoundSoundLegacy(t) ==
        setTimeouts(beepLegacy(t, NewRoundMelody[1]), SubSeq(NewRoundMelody, 2, 3))
      (* lines 316-322 *)
      CollectLegacy(t) ==
        playCollectSoundLegacy(
          [t EXCEPT !.collectibles = RemoveAt(@, k),
                    !.removedCount = @ + 1,
                    !.score = @ + 10,
                    !.scoreText = ScoreLabel(t.score + 10)])
      (* lines 325-359 *)
      NewRoundLegacy(t) ==
        LET t1 == playNewRoundSoundLegacy([t EXCEPT !.round = @ + 1,
                                                    !.roundText = RoundLabel(t.round + 1),
                                                    !.enemySpeed = @ + 1])
        IN [t1 EXCEPT !.collectibles = Respawn(@, sp, 1),
                      !.enemies = IF t1.round >= 2
                                  THEN Append(@, createEnemy(sp.epos, sp.etype, sp.edir))
                                  ELSE @]
  IN IF k > len THEN s
     ELSE IF k > Len(s.collectibles) THEN CollectPassLegacy(s, sp, k + 1, len)
     ELSE IF Within(s.player, s.collectibles[k], 32)
          THEN LET s1 == CollectLegacy(s)
                   s2 == IF Len(s1.collectibles) = 0 THEN NewRoundLegacy(s1) ELSE s1
               IN CollectPassLegacy(s2, sp, k + 1, len)
          ELSE CollectPassLegacy(s, sp, k + 1, len)

(* lines 365-390 *)
RECURSIVE EnemyPassLegacy(_, _)
EnemyPassLegacy(s, k) ==
  LET (* playDamageSound, lines 53-57 *)
      playDamageSoundLegacy(t) ==
        setTimeouts(beepLegacy(t, Note("damage", 1, 400, 0)),
                    << Note("damage", 2, 200, 100) >>)
      (* lines 368-372 *)
      DamageLegacy(t) ==
        playDamageSoundLegacy(
          [t EXCEPT !.health = @ - 10, !.healthText = HealthLabel(t.health - 10)])
      (* lines 373-388: no flag is set *)
      EndGameLegacy(t) ==
        playGameOverSound(
          [t EXCEPT !.player = setVisible(@, FALSE),
                    !.enemies = GroupSetVisible(@, FALSE),
                    !.collectibles = GroupSetVisible(@, FALSE),
                    !.gameOverTexts = @ + 1])
  IN IF k > Len(s.enemies) THEN s
     ELSE IF Within(s.player, s.enemies[k], 48)
          THEN LET s1 == DamageLegacy(s)
                   s2 == IF s1.health <= 0 THEN EndGameLegacy(s1) ELSE s1
               IN EnemyPassLegacy(s2, k + 1)
          ELSE EnemyPassLegacy(s, k + 1)

(* update(), lines 254-391: no early return *)
FrameLegacy(s, held, d, sp) ==
  LET s1 == MovePassLegacy(s, held, d)
  IN EnemyPassLegacy(CollectPassLegacy(s1, sp, 1, Len(s1.collectibles)), 1)

(* Between(50, 750), Between(50, 550): every collectible in one corner *)
LegacyCorner == [i \in 1..10 |-> Pos(750, 550)]

(* the state after create(), lines 111-252, from the globals of lines      *)
(* 92-109: the title screen is shown, the entities are hidden              *)
InitLegacy ==
  /\ player = setVisible(NewPlayer(Pos(400, 300)), FALSE)
  /\ \E lay \in { << Pos(404, 296), Pos(396, 304), Pos(400, 340), Pos(440, 300),
                      Pos(50, 50) >>,
                   << Pos(50, 50), Pos(750, 50), Pos(50, 550), Pos(400, 50),
                      Pos(50, 300) >> },
        dir \in InitialDirections :
       enemies = [i \in 1..5 |->
                    setVisible(createEnemy(lay[i], "random", dir), FALSE)]
  /\ \E lay \in { LayoutHeap, LegacyCorner } :
       collectibles = [i \in 1..10 |->
                         setVisible(createCollectible(lay[i]), FALSE)]
  /\ score = 0
  /\ health = 100
  /\ round = 1
  /\ enemySpeed = 4
  /\ scoreText = "Score: 0"
  /\ healthText = "Health: 100"
  /\ roundText = "Round: 1"
  /\ introComplete = FALSE
  /\ gameOver = FALSE
  /\ introElements = <<>>
  /\ audioContext = "null"
  /\ isAudioInitialized = FALSE
  /\ isAudioUnlocked = FALSE
  /\ webAudio = "running"
  /\ playback = "ok"
  /\ unlockPending = FALSE
  /\ soundQueue = <<>>
  /\ beepLog = <<>>
  /\ titleVisible = TRUE
  /\ screens = <<>>
  /\ destroyed = {}
  /\ contextsCreated = 0
  /\ resumeCalls = 0
  /\ toneProduced = FALSE
  /\ skippedBeeps = FALSE
  /\ playbackFailed = FALSE
  /\ stages = <<"title">>
  /\ escaped = {}
  /\ gameOverTexts = 0
  /\ removedCount = 0
  /\ createErrors = 0
  /\ logoQueue = <<>>
  /\ introMusic = NoMusic
  /\ stage = 0
  /\ staleSetText = "returns"
  /\ reloaded = FALSE
  /\ ticks = 0

(* one call of update() *)
LegacyTick ==
  /\ ~reloaded
  /\ ticks < MaxLegacyTicks
  /\ soundTimers = 0
  /\ ticks' = ticks + 1
  /\ \E held \in { {}, {"left", "right"} }, d \in IntroDraws :
       LET probe == FrameLegacy(Handler, held, d, AnySpawn)
       IN IF probe.round = round
          THEN SetGame(probe, "update")
          ELSE \E sp \in { SpawnOf(LayoutHeap, {}, "random", Pos(410, 310), 0, FALSE),
                           SpawnOf(LegacyCorner, {}, "chaser", Pos(50, 50), 2, FALSE),
                           SpawnOf(LegacyCorner, {}, "patrol", Pos(750, 550), 3, FALSE) } :
                 SetGame(FrameLegacy(Handler, held, d, sp), "update")
  /\ UNCHANGED reloaded

(* click on the Start button, lines 159-226: the title is hidden, the      *)
(* introduction texts are created, the three delayed calls are armed       *)
StartClickLegacy ==
  /\ ~reloaded
  /\ titleVisible
  /\ soundTimers = 0
  /\ SetGame([Handler EXCEPT
                !.titleVisible = FALSE,
                !.stages = Append(@, "intro"),
                !.introElements = << <<0, "introText1">>, <<0, "introText2">>,
                                     <<0, "introText3">> >>,
                !.logoQueue = @ \o << LogoEvent(1000, "tween", 0),
                                      LogoEvent(2000, "tween", 0),
                                      LogoEvent(4000, "start", 0) >>],
             "startButton")
  /\ UNCHANGED <<reloaded, ticks>>

(* a delayed call of the introduction fires, lines 190-225: two start a    *)
(* tween, the last one destroys the texts, shows the game and plays the    *)
(* start melody                                                            *)
IntroTimerLegacy ==
  /\ ~reloaded
  /\ logoQueue # <<>>
  /\ soundTimers = 0
  /\ LET i == NextLogo(logoQueue)
         s == [Handler EXCEPT !.logoQueue = RemoveAt(@, i)]
     IN SetGame(IF logoQueue[i].kind = "start"
                THEN playStartSound(
                       [s EXCEPT !.destroyed = @ \cup Range(s.introElements),
                                 !.introElements = <<>>,
                                 !.player = setVisible(@, TRUE),
                                 !.enemies = GroupSetVisible(@, TRUE),
                                 !.collectibles = GroupSetVisible(@, TRUE),
                                 !.stages = Append(@, "game")])
                ELSE s, "intro")
  /\ UNCHANGED <<reloaded, ticks>>

(* a setTimeout of a sound function fires *)
SoundTimerLegacy ==
  /\ ~reloaded
  /\ soundTimers > 0
  /\ LET i == NextDue(soundQueue)
     IN SetGame(beepLegacy([GameRec EXCEPT !.soundQueue = RemoveAt(@, i)], soundQueue[i]),
                "soundTimer")
  /\ UNCHANGED <<reloaded, ticks>>

(* click on a Restart button, lines 381-384 *)
RestartLegacy ==
  /\ ~reloaded
  /\ gameOverTexts > 0
  /\ reloaded' = TRUE
  /\ SetGame(GameRec, "restart")
  /\ UNCHANGED ticks

NextLegacy ==
  \/ LegacyTick \/ StartClickLegacy \/ IntroTimerLegacy \/ SoundTimerLegacy
  \/ RestartLegacy

SpecLegacy == InitLegacy /\ [][NextLegacy]_vars

----------------------------------------------------------------------------
(* GameLogicSystem.run80sIntroSequence of the latest version, lines        *)
(* 1403-1438.  Nothing in game.js calls it: the step Run80s is a call of   *)
(* the global wrapper (lines 1442-1444) on the created scene.              *)

(* lines 968-1007: while the audio is locked a 100 ms timer is armed that  *)
(* calls startIntroMusic again; once it is unlocked the 3000 ms interval   *)
(* is set and its id stored over the id that was there                     *)
startIntroMusic(s) ==
  IF ~s.isAudioUnlocked THEN [s EXCEPT !.introMusic.retries = @ + 1]
  ELSE [s EXCEPT !.introMusic.made = @ + 1,
                 !.introMusic.stored = s.introMusic.made + 1,
                 !.introMusic.alive = @ \cup {s.introMusic.made + 1}]

(* IntroSystem.createCompanyLogo, lines 1024-1161 *)
createCompanyLogo(s) ==
  startIntroMusic(
    [s EXCEPT !.introElements = @ \o LogoElements,
              !.stages = Append(@, "logo"),
              !.logoQueue = @ \o LogoFanfare
                              \o << LogoEvent(2000, "subtitle", 800),
                                    LogoEvent(5000, "final", 800) >>])

(* createStage of run80sIntroSequence, lines 1419-1431 *)
createStage(s, stageNumber) ==
  CASE stageNumber = 1 -> createCompanyLogo(s)
    [] stageNumber = 2 -> createLoadingScreen([s EXCEPT !.stages = Append(@, "loading")])
    [] stageNumber = 3 -> startActualGame(s)
    [] OTHER -> s

(* lines 1403-1438: stage is 0, the closure is stored in                   *)
(* GameLogicSystem.nextStage, stage 1 is created without counting it       *)
run80sIntroSequence(s) ==
  createStage([s EXCEPT !.introElements = <<>>, !.stage = 0], 1)

(* typeof this.nextStage === 'function' in the 5000 ms callback of         *)
(* createCompanyLogo, line 1154: this is IntroSystem, whose only property  *)
(* is createCompanyLogo; run80sIntroSequence stores its closure on         *)
(* GameLogicSystem                                                         *)
IntroSystemHasNextStage == FALSE

Run80s ==
  /\ ~reloaded
  /\ \A i \in DOMAIN stages : stages[i] # "logo"
  /\ SetGame(run80sIntroSequence(Handler), "run80sIntroSequence")
  /\ UNCHANGED <<reloaded, ticks>>

(* a delayed call of the company logo fires, lines 1073-1157; nextStage is *)
(* the closure of run80sIntroSequence, lines 1408-1417                     *)
LogoTimer ==
  /\ ~reloaded
  /\ logoQueue # <<>>
  /\ LET i == NextLogo(logoQueue)
         e == logoQueue[i]
         s == [Handler EXCEPT !.logoQueue = RemoveAt(@, i)]
         nextStage80s(t) ==
           createStage([t EXCEPT !.destroyed = @ \cup Range(t.introElements),
                                 !.introElements = <<>>,
                                 !.stage = @ + 1], t.stage + 1)
         logoCallback ==
           CASE e.kind = "note" -> createBeep(s)
             [] e.kind = "subtitle" ->
                  [createBeep([s EXCEPT !.introElements = @ \o SubtitleElements])
                     EXCEPT !.logoQueue = @ \o << LogoEvent(e.at + 200, "note", 1000),
                                                  LogoEvent(e.at + 400, "note", 1200) >>]
             [] e.kind = "final" ->
                  LET s1 == [createBeep(s)
                               EXCEPT !.logoQueue =
                                        @ \o << LogoEvent(e.at + 150, "note", 1000),
                                                LogoEvent(e.at + 300, "note", 1200) >>]
                  IN IF IntroSystemHasNextStage THEN nextStage80s(s1) ELSE s1
             [] OTHER -> s
     IN SetGame(logoCallback, "logo")
  /\ UNCHANGED <<reloaded, ticks>>

(* no gesture is made: the audio stays locked, no sound timer is armed *)
Next80s == Run80s \/ LogoTimer \/ IntroTick

Spec80s == Init /\ [][Next80s]_vars

----------------------------------------------------------------------------
(* The intro music of the latest version, lines 968-1016, on a page where  *)
(* the company logo sequence is run and the title screen starts the game   *)

(* the melody of lines 979-992, one note every 200 ms *)
IntroMelody ==
  MelodyNotes("music", <<261, 329, 392, 523, 392, 329, 261, 329, 392, 523, 659, 784>>,
              200)

(* the 100 ms timer of line 974 fires *)
MusicRetry ==
  /\ ~reloaded
  /\ introMusic.retries > 0
  /\ SetGame(startIntroMusic([GameRec EXCEPT !.introMusic.retries = @ - 1]),
             "startIntroMusic")
  /\ UNCHANGED <<reloaded, ticks>>

(* the callback of setInterval fires, lines 994-1004: the twelve note      *)
(* timers of the melody before it have fired, the last of them is due      *)
(* 2200 ms after the callback and the interval is 3000 ms                  *)
MusicInterval ==
  /\ ~reloaded
  /\ introMusic.alive # {}
  /\ introMusic.notes = 0
  /\ introMusic.melodies < MaxMelodies
  /\ SetGame(IF ~introComplete /\ isAudioInitialized /\ isAudioUnlocked
             THEN [GameRec EXCEPT !.introMusic.notes = Len(IntroMelody),
                                  !.introMusic.melodies = @ + 1]
             ELSE GameRec, "introMusic")
  /\ UNCHANGED <<reloaded, ticks>>

(* a note timer of the melody fires, lines 997-1001 *)
MusicNote ==
  /\ ~reloaded
  /\ introMusic.notes > 0
  /\ LET s == [GameRec EXCEPT !.introMusic.notes = @ - 1]
         n == IntroMelody[Len(IntroMelody) + 1 - introMusic.notes]
     IN SetGame(IF ~introComplete THEN beep(s, n) ELSE s, "introNote")
  /\ UNCHANGED <<reloaded, ticks>>

(* pages whose audio context starts running or suspended *)
InitMusic == create({"running", "suspended"}, {"ok"}, {"returns"})

NextMusic ==
  \/ Run80s \/ LogoTimer \/ FirstGesture \/ LoadingTick \/ LoadingDone \/ SoundTimer
  \/ ResumeResolved \/ ResumeRejected \/ MusicRetry \/ MusicInterval \/ MusicNote

SpecMusic == InitMusic /\ [][NextMusic]_vars

----------------------------------------------------------------------------
(* Properties *)

(* enemies in reach of the player, by position *)
InReach(p, g) == { i \in 1..Len(g) : Within(p, g[i], 48) }

C2_ScorePerRemoval ==
  /\ score = 10 * removedCount
  /\ createErrors = 0 => Len(collectibles) + removedCount = 10 * round

(* ten collectibles collected one by one, the last one cleared the round    *)
(* and ten new ones are in the group                                       *)
C2_Witness ==
  /\ round = 2 /\ createErrors = 0 /\ removedCount = 10 /\ score = 100
  /\ Len(collectibles) = 10

(* C3: a frame that empties the collectible set raises round by exactly 1  *)
(* and enemySpeed by exactly 1; every other step leaves both unchanged.    *)
C3_RoundPerClearance ==
  [][LET removedNow == removedCount' - removedCount
         cleared == Len(collectibles) > 0 /\ removedNow >= Len(collectibles)
     IN IF cleared
        THEN round' = round + 1 /\ enemySpeed' = enemySpeed + 1
        ELSE round' = round /\ enemySpeed' = enemySpeed]_vars

(* the second clearance of a run has happened *)
C3_Witness == round = 3 /\ enemySpeed = 6 /\ removedCount >= 20

(* C4: a frame of active play that starts with health h > 0 and has k      *)
(* visible enemies in reach of the player in the collision pass ends with  *)
(* health max(0, h - 10 k).                                                *)
C4_DamagePerContact ==
  [][(/\ ticks' = ticks + 1
      /\ introComplete /\ ~gameOver /\ health > 0)
     => LET k == Cardinality({ i \in InReach(player', enemies') :
                                 /\ player.visible
                                 /\ i <= Len(enemies) => enemies[i].visible })
        IN health' = Max(0, health - 10 * k)]_vars

(* four enemies in reach for three frames: 100, 60, 20, and the last frame *)
(* applies two of its four contacts                                        *)
C4_Witness ==
  /\ ticks = 3 /\ health = 0 /\ gameOver
  /\ Cardinality(InReach(player, enemies)) = 4

(* C5: the game-over block has run once when the game is over and not at   *)
(* all before, whatever the number of enemies in reach and of frames after *)
C5_GameOverOnce == gameOverTexts = (IF gameOver THEN 1 ELSE 0)

(* the game ended with three or more enemies in reach, a frame followed *)
C5_Witness ==
  /\ gameOver /\ gameOverTexts = 1 /\ ticks = 4
  /\ Cardinality(InReach(player, enemies)) >= 3

(* positions of a group, without the visibility flags *)
Places(g) == [i \in 1..Len(g) |-> <<g[i].x, g[i].y>>]

(* C6: once gameOver is true it stays true, and no step changes score,     *)
(* health, round, enemySpeed, a position or the membership of the groups.  *)
C6_GameOverTerminal ==
  [][gameOver =>
       /\ gameOver'
       /\ UNCHANGED <<score, health, round, enemySpeed>>
       /\ player'.x = player.x /\ player'.y = player.y
       /\ Places(enemies') = Places(enemies)
       /\ Places(collectibles') = Places(collectibles)]_vars

(* a loading timer armed during play has fired after the game ended, and a *)
(* frame ran: the player sprite is shown again, the game is still over      *)
C6_Witness ==
  /\ gameOver /\ player.visible /\ loadTimers = 0 /\ ticks >= 4

(* C7: health stays within 0..100. *)
C7_HealthRange == health >= 0 /\ health <= 100

(* the game ended at health 0 with more enemies in reach than health left  *)
C7_Witness ==
  /\ health = 0 /\ ticks = 3
  /\ Cardinality(InReach(player, enemies)) > 2

(* C8: round and enemySpeed never decrease and enemySpeed = 4 + (round - 1) *)
C8_SpeedFollowsRound ==
  [][/\ round' >= round
     /\ enemySpeed' >= enemySpeed
     /\ enemySpeed = 4 + (round - 1)
     /\ enemySpeed' = 4 + (round' - 1)]_vars

(* two rounds cleared *)
C8_Witness == round = 3 /\ enemySpeed = 6

(* C9: while no creation has failed there are 5 + (round - 1) enemies, the *)
(* added ones of type random, chaser or patrol, and 1 to 10 collectibles.  *)
C9_SpawnPerClearance ==
  createErrors = 0 =>
    /\ Len(enemies) = 5 + (round - 1)
    /\ \A i \in 1..Len(enemies) : enemies[i].type \in {"random", "chaser", "patrol"}
    /\ Len(collectibles) >= 1 /\ Len(collectibles) <= 10

(* the first clearance added a chaser and a full set of collectibles *)
C9_Witness ==
  /\ createErrors = 0 /\ round = 2 /\ Len(enemies) = 6
  /\ enemies[6].type = "chaser" /\ Len(collectibles) = 10

(* C10: the HUD texts show score, health and round in every state. *)
C10_HudTexts ==
  /\ scoreText = "Score: " \o ToString(score)
  /\ healthText = "Health: " \o ToString(health)
  /\ roundText = "Round: " \o ToString(round)

(* one enemy contact from full health *)
C10_Witness == health = 90 /\ healthText = "Health: 90" /\ score > 0

(* the audio fields of a handler state *)
AudioState(s) ==
  <<s.audioContext, s.isAudioInitialized, s.isAudioUnlocked, s.unlockPending,
    s.contextsCreated, s.resumeCalls, s.toneProduced, s.playbackFailed>>

(* C11: no tone is produced before the audio is unlocked, and a createBeep *)
(* call made while isAudioUnlocked is false creates no oscillator, does    *)
(* not create or resume the AudioContext and leaves the audio state as it  *)
(* was.                                                                    *)
C11_NoToneBeforeUnlock ==
  /\ toneProduced => isAudioUnlocked
  /\ ~isAudioUnlocked =>
       /\ AudioState(createBeep(GameRec)) = AudioState(GameRec)
       /\ createBeep(GameRec).thrown = ""

(* play is under way on a page whose context never resumed: the beeps of   *)
(* the loading screen, of the collected items and of the sound timers were *)
(* all skipped                                                             *)
C11_Witness ==
  /\ skippedBeeps /\ ~isAudioUnlocked /\ ~toneProduced
  /\ audioContext = "suspended" /\ score > 0 /\ soundTimers = 0

(* C12: at most one AudioContext is created per page load, and init on an  *)
(* initialized AudioSystem leaves audioContext and isAudioInitialized      *)
(* unchanged and creates nothing.                                          *)
C12_InitIdempotent ==
  /\ contextsCreated <= 1
  /\ isAudioInitialized =>
       /\ init(GameRec).audioContext = audioContext
       /\ init(GameRec).isAudioInitialized
       /\ init(GameRec).contextsCreated = contextsCreated

(* unlock ran twice on a suspended context, the second time without init *)
C12_Witness ==
  /\ contextsCreated = 1 /\ isAudioInitialized /\ resumeCalls >= 3
  /\ Len(screens) = 2

(* C13: on a page whose AudioContext constructor throws, no exception      *)
(* escapes unlock or the start handler.                                    *)
C13_AudioFailureNonFatal ==
  \A e \in escaped : e[1] # "startGame"

(* the game fields of a handler state *)
GameOf(s) ==
  <<s.player, s.enemies, s.collectibles, s.score, s.health, s.round,
    s.enemySpeed, s.introComplete, s.gameOver, Len(s.soundQueue),
    s.removedCount, s.createErrors>>

(* C14: a throw while creating or scheduling the oscillator does not       *)
(* escape createBeep: a frame ends in the state it reaches on a page where *)
(* playback works, and the 2500 ms callback completes the start of play.   *)
C14_BeepFailureCaught ==
  [][/\ \A e \in escaped' : e[2] # "createBeep"
     /\ ticks' = ticks + 1 =>
          \E held \in { {} }, d \in IntroDraws, sp \in Spawns :
            <<player', enemies', collectibles', score', health', round',
              enemySpeed', introComplete', gameOver', soundTimers',
              removedCount', createErrors'>>
              = GameOf(Frame([GameRec EXCEPT !.playback = "ok"], held, d, sp))
     /\ Len(stages') > Len(stages) /\ stages'[Len(stages')] = "game" =>
          introComplete' /\ soundTimers' = soundTimers + 4]_vars

(* every beep of a run failed, the round was cleared all the same *)
C14_Witness ==
  /\ playbackFailed /\ ~toneProduced /\ introComplete
  /\ round = 2 /\ Len(collectibles) = 10 /\ soundTimers = 0

(* C15: in a frame that clears the round each of the 11 creations either   *)
(* adds one object or logs one error, round and enemySpeed rise by one and *)
(* the enemy collision pass applies its damage.                            *)
C15_CreationFailureSkipped ==
  [][round' # round =>
       /\ Len(collectibles') + (Len(enemies') - Len(enemies))
            + (createErrors' - createErrors) = COLLECTIBLE_COUNT + 1
       /\ round' = round + 1
       /\ enemySpeed' = enemySpeed + 1
       /\ LET hit == { i \in InReach(player', enemies') :
                         i <= Len(enemies) => enemies[i].visible }
          IN health' = Max(0, health - DAMAGE_PER_ENEMY * Cardinality(hit))]_vars

(* creations 2 and 3 and the enemy failed, creations 4 to 10 were made *)
C15_Witness ==
  /\ round = 2 /\ enemySpeed = 5 /\ createErrors = 3
  /\ Len(collectibles) = 8 /\ Len(enemies) = 5

(* C16: in active play with health > 0 a round clearance stays possible:   *)
(* the collectible group is not empty.                                     *)
C16_ClearanceStaysPossible ==
  (introComplete /\ ~gameOver /\ health > 0) => Len(collectibles) > 0

(* every b of q has an a before it *)
Before(a, b, q) ==
  \A i \in DOMAIN q : q[i] = b => \E j \in 1..(i - 1) : q[j] = a

(* number of entries a among the first n of q *)
CountIn(a, q, n) == Cardinality({ i \in 1..n : q[i] = a })

(* C17 as stated: a loading screen is shown before the title screen, the   *)
(* game starts after the title screen.                                     *)
C17_LoadingBeforeTitle ==
  /\ Before("loading", "title", stages)
  /\ Before("title", "game", stages)

(* C17: the stages occur in the order title, loading, game: the title      *)
(* screen is the first stage, a loading screen is shown after it, and each *)
(* start of the game follows the end of a loading screen of its own.       *)
C17_TitleLoadingGame ==
  /\ stages[1] = "title"
  /\ Before("title", "loading", stages)
  /\ Before("loading", "game", stages)
  /\ \A i \in DOMAIN stages :
       stages[i] = "game" => CountIn("game", stages, i) <= CountIn("loading", stages, i)
  /\ introComplete => \E i \in DOMAIN stages : stages[i] = "game"

(* one gesture on the title screen, its loading screen has ended *)
C17_Witness ==
  /\ introComplete /\ stages = <<"title", "loading", "game">> /\ ~titleVisible

(* C18: the loading screen is started at most once and startActualGame is  *)
(* executed at most once per page load.                                    *)
C18_IntroRunsOnce ==
  /\ Len(screens) <= 1
  /\ CountIn("game", stages, Len(stages)) <= 1

(* C19: when startActualGame runs, every element of every loading screen   *)
(* created so far has been destroyed.                                      *)
C19_LoadingCleanedUp ==
  [][(Len(stages') > Len(stages) /\ stages'[Len(stages')] = "game") =>
       \A k \in DOMAIN screens' : Range(LoadingElements(k)) \subseteq destroyed']_vars

(* C20 as stated: enemies plus collectibles are at most 15. *)
C20_AtMost15 == Len(enemies) + Len(collectibles) <= 15

(* C20: there are at most 5 + (round - 1) enemies and at most 10           *)
(* collectibles, 15 + (round - 1) objects in all.                          *)
C20_ObjectsPerRound ==
  /\ Len(enemies) <= ENEMY_COUNT + (round - 1)
  /\ Len(collectibles) <= COLLECTIBLE_COUNT
  /\ Len(enemies) + Len(collectibles) <= ENEMY_COUNT + COLLECTIBLE_COUNT + (round - 1)

(* the first clearance: 6 enemies and 10 collectibles *)
C20_Witness ==
  /\ round = 2 /\ Len(enemies) + Len(collectibles) = 16 /\ health > 0

----------------------------------------------------------------------------
(* Movement, gating and collision passes *)

Keys == {"left", "right", "up", "down"}

(* the displacement the held keys ask for on one axis, in pixels *)
Axis(held, minus, plus) ==
  (IF plus \in held THEN PLAYER_SPEED ELSE 0)
    - (IF minus \in held THEN PLAYER_SPEED ELSE 0)

(* C22: in one tick the player moves by exactly 5 per held direction key   *)
(* before clamping: the displacement on each axis is -5, 0 or +5, two      *)
(* opposite keys give 0 on that axis, and no key leaves the position       *)
(* unchanged.  Checked for every set of held keys at every position the    *)
(* player reaches.                                                         *)
C22_StepPerKey ==
  \A held \in SUBSET Keys :
    LET q == MovePlayer(player, held)
        dx == Axis(held, "left", "right")
        dy == Axis(held, "up", "down")
    IN /\ dx \in {-5, 0, 5} /\ dy \in {-5, 0, 5}
       /\ q.x = Clamp(player.x + Px(dx), Px(PLAYER_SIZE), Px(WIDTH - PLAYER_SIZE))
       /\ q.y = Clamp(player.y + Px(dy), Px(PLAYER_SIZE), Px(HEIGHT - PLAYER_SIZE))
       /\ ({"left", "right"} \subseteq held => q.x = player.x)
       /\ ({"up", "down"} \subseteq held => q.y = player.y)
       /\ (held = {} => q = player)

(* after one frame with left, right and down held the player is 5 below    *)
(* its start and has not moved sideways                                    *)
C22_Witness ==
  /\ ticks = 1
  /\ player.x = Px(WIDTH \div 2)
  /\ player.y = Px(HEIGHT \div 2 + PLAYER_SPEED)

(* C24: while introComplete is false, score = 0, health = 100, round = 1,  *)
(* enemySpeed = 4, gameOver is false and the groups hold the five enemies  *)
(* and the ten collectibles of create(), the collectibles where create()   *)
(* put them, whatever frames ran before.                                   *)
C24_NoCollisionBeforeIntro ==
  ~introComplete =>
    /\ score = 0 /\ health = MAX_HEALTH /\ round = 1
    /\ enemySpeed = ENEMY_SPEED /\ ~gameOver
    /\ removedCount = 0 /\ gameOverTexts = 0
    /\ Len(enemies) = ENEMY_COUNT
    /\ \A i \in 1..ENEMY_COUNT : enemies[i].type = "random"
    /\ \E lay \in CollectibleLayouts :
         Places(collectibles) = [i \in 1..COLLECTIBLE_COUNT |-> <<lay[i].x, lay[i].y>>]

(* frames ran before the intro completed: the player has moved, enemies    *)
(* are within 48 of it and a collectible within 32                         *)
C24_Witness ==
  /\ ~introComplete /\ ticks >= 2
  /\ player.x # Px(WIDTH \div 2)
  /\ Cardinality(InReach(player, enemies)) >= 2
  /\ \E k \in DOMAIN collectibles : Within(player, collectibles[k], COLLECTIBLE_SIZE)

(* the collectibles in range of the player when the collectible pass of a  *)
(* frame starts: the pass runs after the moves, on the moved player         *)
InRangeAtPass ==
  { k \in DOMAIN collectibles :
      /\ collectibles[k].visible
      /\ Within(player', collectibles[k], COLLECTIBLE_SIZE) }

(* C28: every visible collectible within 32 of the player when the         *)
(* collectible pass of a tick starts is removed and scored in that tick,   *)
(* also when two or more are in range at once.                             *)
C28_AllInRangeCollected ==
  [][(ticks' = ticks + 1 /\ introComplete /\ ~gameOver /\ escaped' = escaped)
       => /\ removedCount' - removedCount >= Cardinality(InRangeAtPass)
          /\ score' - score >= SCORE_PER_COLLECTIBLE * Cardinality(InRangeAtPass)]_vars

(* C29: a patrol enemy redraws moveDirection every 60 frames: a redraw     *)
(* happens on the 60th update since the previous one, and moveCounter      *)
(* stays within 0..59.                                                     *)
C29_PatrolPeriod60 ==
  [][\A i \in DOMAIN enemies :
       (enemies[i].type = "patrol" /\ ticks' = ticks + 1 /\ ~gameOver) =>
         /\ enemies'[i].moveCounter \in 0..(PATROL_FRAMES - 1)
         /\ (enemies'[i].moveCounter = 0 => enemies[i].moveCounter = PATROL_FRAMES - 1)]_vars

----------------------------------------------------------------------------
(* Timers and melodies *)

(* the notes of one sound in a sequence of notes *)
OfSound(q, sound) == SelectSeq(q, LAMBDA n : n.sound = sound)

(* C21 as stated: no timer is cancelled before it has fired all its        *)
(* scheduled firings: a loading-dots event that is no longer armed has     *)
(* fired LOADING_REPEAT + 1 times.                                         *)
C21_NoCancellation ==
  \A k \in DOMAIN screens :
    ~screens[k].pending => screens[k].fired = LOADING_REPEAT + 1

(* C21: one-shot timers are fire-and-forget, the repeating loading-dots    *)
(* event is cancelled: a setTimeout of AudioSystem leaves the set of       *)
(* waiting timers only by firing, with its createBeep call, and the dots   *)
(* event is destroyed by the 2500 ms callback after LOADING_REPEAT of its  *)
(* LOADING_REPEAT + 1 firings.                                             *)
C21_OnlyDotsCancelled ==
  /\ [](\A k \in DOMAIN screens :
          ~screens[k].pending => screens[k].fired = LOADING_REPEAT)
  /\ [][soundQueue' # soundQueue =>
          \/ /\ Len(soundQueue') > Len(soundQueue)
             /\ SubSeq(soundQueue', 1, Len(soundQueue)) = soundQueue
          \/ \E i \in DOMAIN soundQueue :
               /\ soundQueue' = RemoveAt(soundQueue, i)
               /\ beepLog' = Append(beepLog, soundQueue[i])]_vars

(* a loading screen has ended, its dots event destroyed after five         *)
(* firings, and the four timers of the start melody have all fired         *)
C21_Witness ==
  /\ \E k \in DOMAIN screens : ~screens[k].pending /\ screens[k].fired = LOADING_REPEAT
  /\ soundQueue = <<>>
  /\ OfSound(beepLog, "start") = StartMelody

(* C23: the createBeep calls of one playStartSound, playGameOverSound or   *)
(* playNewRoundSound happen in the order the notes are listed, at offsets  *)
(* 0/150/300/450, 0/200/400/600 and 0/150/300 ms, each note once, also     *)
(* after the game is over: the notes already played followed by the notes  *)
(* still waiting are the melody as listed.                                 *)
C23_MelodyInOrder ==
  \A melody \in {StartMelody, GameOverMelody, NewRoundMelody} :
    OfSound(beepLog, melody[1].sound) \o OfSound(soundQueue, melody[1].sound)
      \in {<<>>, melody}

(* the game is over and the four notes of the game-over melody have been   *)
(* played, the last damage notes between them                              *)
C23_Witness ==
  /\ gameOver
  /\ soundQueue = <<>>
  /\ OfSound(beepLog, "gameOver") = GameOverMelody
  /\ \E i \in DOMAIN beepLog :
       /\ beepLog[i].sound = "damage" /\ beepLog[i].delay = 100
       /\ \E j \in 1..(i - 1) : beepLog[j].sound = "gameOver"

----------------------------------------------------------------------------
(* First copy of the game (lines 1-766) *)

(* C25: in the first copy health never drops below 0 and the game-over     *)
(* effects (Game Over text, Restart button, game-over sound) are executed  *)
(* exactly once, also in a tick where two or more enemies are within 48 of *)
(* the player when health reaches 0.                                       *)
C25_FirstGameOverOnce ==
  /\ health >= 0
  /\ gameOverTexts <= 1
  /\ Len(OfSound(beepLog \o soundQueue, "gameOver")) <= Len(GameOverMelody)
  /\ (gameOver => gameOverTexts = 1)

(* C26: in the first copy, while introComplete is false (logo, title and   *)
(* loading stages, entities hidden) score, health, round and gameOver keep *)
(* their initial values.                                                   *)
C26_FirstIdleBeforeIntro ==
  ~introComplete =>
    score = 0 /\ health = MAX_HEALTH /\ round = 1 /\ ~gameOver

----------------------------------------------------------------------------
(* Legacy version (src/unnamed/part_000) *)

(* C27: in the legacy version reaching health <= 0 is terminal and happens *)
(* once: after the tick in which health first becomes <= 0, later update() *)
(* ticks do not change score, health or round, create no further Game Over *)
(* text or restart button and do not replay the game-over sound.           *)
C27_LegacyGameOverTerminal ==
  [][(health <= 0 /\ ticks' = ticks + 1) =>
       /\ UNCHANGED <<score, health, round, gameOverTexts>>
       /\ OfSound(soundQueue', "gameOver") = <<>>]_vars

----------------------------------------------------------------------------
(* run80sIntroSequence *)

(* C30: after run80sIntroSequence is called, stage 1 (company logo) is     *)
(* followed by stage 2 (loading screen) and stage 3 (startActualGame),     *)
(* each entered once and in that order, and introComplete becomes true     *)
(* without user input: stated for the states in which every delayed call   *)
(* of the sequence has fired.                                              *)
C30_SequenceCompletes ==
  ((\E i \in DOMAIN stages : stages[i] = "logo") /\ logoQueue = <<>>) =>
    /\ introComplete
    /\ stages = <<"title", "logo", "loading", "game">>

----------------------------------------------------------------------------
(* Flags, score and audio state of the latest version *)

(* C33: gameOver is true if and only if health = 0, and the game is not    *)
(* over before introComplete is true.                                      *)
C33_GameOverIffDead ==
  /\ gameOver <=> health = 0
  /\ gameOver => introComplete

(* the last contact of a frame ended the game, frames followed *)
C33_Witness ==
  /\ gameOver /\ health = 0 /\ introComplete /\ healthText = "Health: 0"
  /\ ~player.visible

(* C34: while no creation has failed, score = 100 (round - 1) + 10 (10 -   *)
(* number of collectibles); score is a non-negative multiple of 10 and no  *)
(* step decreases it.                                                      *)
C34_ScoreFormula ==
  /\ [](/\ createErrors = 0 =>
             score = 100 * (round - 1) + 10 * (COLLECTIBLE_COUNT - Len(collectibles))
        /\ score >= 0 /\ score % 10 = 0)
  /\ [][score' >= score]_vars

(* two rounds cleared and part of the third set collected *)
C34_Witness ==
  /\ createErrors = 0 /\ round = 3 /\ score > 200 /\ Len(collectibles) < 10

(* C35: no step sets introComplete, gameOver or isAudioUnlocked back to    *)
(* false, and unlock called with isAudioUnlocked true changes no state.    *)
C35_FlagsMonotone ==
  /\ [](isAudioUnlocked => unlock(GameRec) = GameRec)
  /\ [][/\ introComplete => introComplete'
        /\ gameOver => gameOver'
        /\ isAudioUnlocked => isAudioUnlocked']_vars

(* a second gesture was made with the audio unlocked and the game started, *)
(* then the game ended                                                     *)
C35_Witness ==
  /\ isAudioUnlocked /\ introComplete /\ gameOver
  /\ Len(screens) = 2 /\ resumeCalls = 0

(* C36: isAudioUnlocked implies that the AudioContext exists and           *)
(* isAudioInitialized is true, so a createBeep that passes the unlock      *)
(* check does not call init: it creates no context and resumes none.       *)
C36_UnlockedHasContext ==
  isAudioUnlocked =>
    /\ audioContext # "null"
    /\ isAudioInitialized
    /\ createBeep(GameRec).contextsCreated = contextsCreated
    /\ createBeep(GameRec).resumeCalls = resumeCalls

(* the promise of resume() unlocked a context that was created suspended,  *)
(* a tone was played on it                                                 *)
C36_Witness ==
  /\ isAudioUnlocked /\ toneProduced /\ resumeCalls > 0 /\ contextsCreated = 1

----------------------------------------------------------------------------
(* Loading-dots timer *)

(* C38: the callback of the loading-dots timer runs at most 5 times per    *)
(* loading screen and never runs when the loading text of its screen has   *)
(* been destroyed.                                                         *)
C38_DotsTimerSafe ==
  /\ [](\A k \in DOMAIN screens : screens[k].fired <= LOADING_REPEAT)
  /\ [][\A k \in DOMAIN screens :
          screens'[k].fired > screens[k].fired => <<k, "loadingText">> \notin destroyed]_vars

----------------------------------------------------------------------------
(* Start of play *)

(* C32: once a start gesture has been made on a page whose AudioContext    *)
(* could be created, startActualGame runs and introComplete becomes true,  *)
(* whether the context was suspended or not and whether the promise of     *)
(* resume() is fulfilled, rejected or never settled.                       *)
C32_GestureLeadsToGame == (contextsCreated > 0) ~> introComplete

(* the game has started on a context that is still suspended, the promise  *)
(* of resume() has not settled                                             *)
C32_Witness ==
  /\ introComplete /\ unlockPending /\ audioContext = "suspended"
  /\ ~isAudioUnlocked /\ stages = <<"title", "loading", "game">>

(* C31: in the latest version, once the company logo sequence has been run *)
(* and startActualGame has executed, introMusicInterval is null and no     *)
(* interval set by startIntroMusic is alive, and no note of the intro      *)
(* music is played, whatever the order of the 100 ms retries, the          *)
(* completion of resume(), the calls of startIntroMusic and the loading    *)
(* timers.                                                                 *)
C31_MusicStopsWithIntro ==
  /\ []((/\ introComplete
         /\ \E i, j \in DOMAIN stages :
              i < j /\ stages[i] = "logo" /\ stages[j] = "game")
        => introMusic.stored = 0 /\ introMusic.alive = {})
  /\ [][introComplete =>
         \A i \in DOMAIN beepLog' :
           beepLog'[i].sound = "music" => i \in DOMAIN beepLog /\ beepLog[i] = beepLog'[i]]_vars

====
